---- MODULE Spec2Model ----
(***************************************************************************)
(* A model of the Snowflake AI query assistant: the textual Validator and  *)
(* Advisor of QueryTranslator, the SnowflakeAIAgent pipeline               *)
(* (start_session, load_database_context, process_query) and the           *)
(* ConversationManager's durable session store.                            *)
(*                                                                         *)
(* Python strings are modelled as sequences of one-character strings, so   *)
(* that upper(), strip(), startswith(), endswith() and the substring test  *)
(* `in` are computed character by character, as the interpreter does.      *)
(***************************************************************************)
EXTENDS Integers, Sequences, FiniteSets, TLC

VARIABLES
    \* QueryTranslator applied to one string
    sql,          \* the SQL string handed to validate_query / suggest_improvements
    validation,   \* None, or the dictionary validate_query returned for sql
    suggestions,  \* None, or the list suggest_improvements returned for sql
    \* SnowflakeAIAgent
    current_session,    \* agent.current_session: None or an AgentSession
    database_context,   \* agent.database_context: None or a QueryContext
    request,            \* None, or the last agent call: its name and arguments,
                        \* and what start_session returned
    response,           \* None, or what the last agent call returned
    warehouse_tables,   \* the table names the warehouse lists, in its order
    warehouse_calls,    \* the snowflake_client calls the last agent call made
    completion_request, \* None, or the messages the last call sent for completion
    load_result,        \* None, or the last load_database_context: its flag,
                        \* whether list_tables raised, and its outcome
    warehouse_bad_info,   \* the tables whose get_table_info raises
    warehouse_bad_sample, \* the tables whose get_sample_data raises
    now,                \* the clock datetime.now() reads, in ticks
    queries,            \* the number of process_query calls made so far
    \* ConversationManager
    files,         \* sessions_dir: file name -> the JSON document in the file
    saved,         \* file name -> the AgentSession last saved to the file
    store_result,  \* None, or the last ConversationManager call and its result
    store_fault,   \* None, or the error met by the last ConversationManager call
    \* SnowflakeClient
    settings,           \* snowflake_settings and the process environment
    connection_params,  \* None, or client._connection_params
    connection,         \* client.connection: None, or the connection held
    driver,             \* snowflake.connector: the connections it opened and
                        \* those still open, the cursors it handed out and closed
    client_call         \* None, or the last call on the connection and its outcome

translator_vars == <<sql, validation, suggestions>>

agent_vars ==
    <<current_session, database_context, request, response, warehouse_tables,
      warehouse_calls, completion_request, load_result, warehouse_bad_info,
      warehouse_bad_sample, now, queries>>

store_vars == <<files, saved, store_result, store_fault>>

client_vars ==
    <<settings, connection_params, connection, driver, client_call>>

vars == <<translator_vars, agent_vars, store_vars, client_vars>>

\* Python's None and a present value: an optional value is a sequence of
\* length zero or one.
None == <<>>
Some(x) == <<x>>

-----------------------------------------------------------------------------
(* Python str primitives                                                   *)

LowerLetters == <<"a","b","c","d","e","f","g","h","i","j","k","l","m",
                  "n","o","p","q","r","s","t","u","v","w","x","y","z">>

\* str.upper() on one character: letters a-z map to A-Z, the rest is kept.
UpperOf ==
    [c \in {LowerLetters[i] : i \in 1..26} |->
        <<"A","B","C","D","E","F","G","H","I","J","K","L","M", "N","O","P","Q","R","S","T","U","V","W","X","Y","Z">>[CHOOSE i \in 1..26 : LowerLetters[i] = c]]

UpperChar(c) == IF c \in DOMAIN UpperOf THEN UpperOf[c] ELSE c

\* str.upper()
upper(s) == [i \in 1..Len(s) |-> UpperChar(s[i])]

\* The characters str.strip() removes.
Whitespace == {" ", "\n", "\t"}

RECURSIVE lstrip(_)
lstrip(s) ==
    IF s # <<>> /\ Head(s) \in Whitespace THEN lstrip(Tail(s)) ELSE s

RECURSIVE rstrip(_)
rstrip(s) ==
    IF s # <<>> /\ s[Len(s)] \in Whitespace
    THEN rstrip(SubSeq(s, 1, Len(s) - 1))
    ELSE s

\* str.strip()
strip(s) == rstrip(lstrip(s))

\* s.startswith(p)
startswith(s, p) == Len(p) <= Len(s) /\ \A j \in 1..Len(p) : s[j] = p[j]

\* s.endswith(p)
endswith(s, p) ==
    Len(p) <= Len(s) /\ \A j \in 1..Len(p) : s[Len(s) - Len(p) + j] = p[j]

\* The substring test `k in s`.
contains(s, k) ==
    \E i \in 1..(Len(s) - Len(k) + 1) : \A j \in 1..Len(k) : s[i + j - 1] = k[j]

\* Concatenation of a sequence of strings.
RECURSIVE concat(_)
concat(parts) ==
    IF parts = <<>> THEN <<>> ELSE Head(parts) \o concat(Tail(parts))

-----------------------------------------------------------------------------
(* The keywords the Validator and the Advisor scan for                     *)

KW_SELECT   == <<"S","E","L","E","C","T">>
KW_FROM     == <<"F","R","O","M">>
KW_WHERE    == <<"W","H","E","R","E">>
KW_GROUP_BY == <<"G","R","O","U","P"," ","B","Y">>
KW_LIMIT    == <<"L","I","M","I","T">>
KW_JOIN     == <<"J","O","I","N">>
KW_SELECT_STAR == <<"S","E","L","E","C","T"," ","*">>
KW_DROP     == <<"D","R","O","P">>
KW_DELETE   == <<"D","E","L","E","T","E">>
KW_TRUNCATE == <<"T","R","U","N","C","A","T","E">>
KW_ALTER    == <<"A","L","T","E","R">>
KW_CREATE   == <<"C","R","E","A","T","E">>

\* dangerous_keywords, in the order the scan visits them.
dangerous_keywords == <<KW_DROP, KW_DELETE, KW_TRUNCATE, KW_ALTER, KW_CREATE>>

\* The keywords that excuse a text that does not start with SELECT.
entry_keywords == <<<<"W","I","T","H">>, <<"S","H","O","W">>, <<"D","E","S","C","R","I","B","E">>>>

\* The functions that excuse a SELECT without FROM.
no_table_functions == <<<<"C","U","R","R","E","N","T","_">>, <<"S","Y","S","D","A","T","E">>, <<"G","E","T","D","A","T","E">>>>

\* any(k in s for k in keywords)
any_in(s, keywords) == \E i \in 1..Len(keywords) : contains(s, keywords[i])

-----------------------------------------------------------------------------
(* QueryTranslator.validate_query                                          *)

\* f"Query contains potentially dangerous operation: {keyword}"
DangerWarning(keyword) == [kind |-> "dangerous", keyword |-> keyword]
\* "SELECT query without FROM clause"
NoFromWarning == [kind |-> "no_from", keyword |-> <<>>]
\* "Query should start with SELECT, WITH, SHOW, or DESCRIBE"

\* Mutant: the danger loop breaks at the first keyword found.
danger_scan_first_only(sql_upper, keywords) ==
    IF \E i \in 1..Len(keywords) : contains(sql_upper, keywords[i])
    THEN <<DangerWarning(keywords[CHOOSE i \in 1..Len(keywords) :
              /\ contains(sql_upper, keywords[i])
              /\ \A j \in 1..(i - 1) : ~contains(sql_upper, keywords[j])])>>
    ELSE <<>>

\* The danger loop: one warning appended per keyword found, in list order.
RECURSIVE danger_scan(_, _)
danger_scan(sql_upper, keywords) ==
    IF keywords = <<>> THEN <<>>
    ELSE (IF contains(sql_upper, Head(keywords))
          THEN <<DangerWarning(Head(keywords))>> ELSE <<>>)
         \o danger_scan(sql_upper, Tail(keywords))

\* Mutant: the text is not stripped before the startswith test.
entry_check_fails_unstripped(sql_upper) ==
    /\ ~startswith(sql_upper, KW_SELECT)
    /\ ~any_in(sql_upper, entry_keywords)

\* The entry-point check: TRUE when the error is recorded.
entry_check_fails(sql_upper) ==
    /\ ~startswith(strip(sql_upper), KW_SELECT)
    /\ ~any_in(sql_upper, entry_keywords)

\* Mutant: no function excuses a SELECT without FROM.
structure_warns_no_exemption(sql_upper) ==
    /\ contains(sql_upper, KW_SELECT)
    /\ ~contains(sql_upper, KW_FROM)

\* The structural check: TRUE when the missing-FROM warning is appended.
structure_warns(sql_upper) ==
    /\ contains(sql_upper, KW_SELECT)
    /\ ~contains(sql_upper, KW_FROM)
    /\ ~any_in(sql_upper, no_table_functions)

validate_query(sql_query) ==
    LET sql_upper == upper(sql_query)
        w1 == danger_scan(sql_upper, dangerous_keywords)
        failed == entry_check_fails(sql_upper)
        w2 == IF structure_warns(sql_upper) THEN <<NoFromWarning>> ELSE <<>>
    IN  [is_valid |-> ~failed,
         warnings |-> w1 \o w2,
         errors   |-> IF failed THEN <<[kind |-> "entry", keyword |-> <<>>]>> ELSE <<>>]

-----------------------------------------------------------------------------
(* QueryTranslator.suggest_improvements                                    *)

\* The four suggestion texts, named by the rule that emits them.
SuggestLimit == "Consider adding LIMIT clause to prevent large result sets"
SuggestWhere == "Consider adding WHERE clause to filter results"
SuggestJoin  == "Ensure JOIN conditions use indexed columns for better performance"
SuggestStar  == "Consider selecting specific columns instead of SELECT * for better performance"

limit_rule(sql_upper) ==
    contains(sql_upper, KW_SELECT) /\ ~contains(sql_upper, KW_LIMIT)

\* Mutant: GROUP BY does not silence the WHERE suggestion.
where_rule_without_group_by(sql_upper) ==
    /\ contains(sql_upper, KW_FROM)
    /\ ~contains(sql_upper, KW_WHERE)

where_rule(sql_upper) ==
    /\ contains(sql_upper, KW_FROM)
    /\ ~contains(sql_upper, KW_WHERE)
    /\ ~contains(sql_upper, KW_GROUP_BY)

join_rule(sql_upper) == contains(sql_upper, KW_JOIN)

\* Mutant: the star is looked for in front of FROM only.
star_rule_before_from(sql_upper) ==
    contains(sql_upper, KW_SELECT_STAR \o <<" ">> \o KW_FROM)

star_rule(sql_upper) == contains(sql_upper, KW_SELECT_STAR)

suggest_improvements(sql_query) ==
    LET sql_upper == upper(sql_query)
        s1 == IF limit_rule(sql_upper) THEN <<SuggestLimit>> ELSE <<>>
        s2 == IF where_rule(sql_upper) THEN s1 \o <<SuggestWhere>> ELSE s1
        s3 == IF join_rule(sql_upper)  THEN s2 \o <<SuggestJoin>>  ELSE s2
        s4 == IF star_rule(sql_upper)  THEN s3 \o <<SuggestStar>>  ELSE s3
    IN  s4

-----------------------------------------------------------------------------
(* Time: datetime.now(), strftime and isoformat                            *)

\* The clock's resolution: ticks per second.
TicksPerSecond == 2

Digits == <<"0","1","2","3","4","5","6","7","8","9">>

\* A number below 100 printed in two digits, zero-padded (%S, %M, ...).
TwoDigits(n) == <<Digits[(n \div 10) + 1], Digits[(n % 10) + 1]>>

\* strftime('%Y%m%d_%H%M%S'): the clock to the second, the fraction dropped.
strftime(t) == TwoDigits(t \div TicksPerSecond)

-----------------------------------------------------------------------------
(* SnowflakeAIAgent: sessions                                              *)

SessionPrefix == <<"s","e","s","s","i","o","n","_">>

\* The role tags.
Role_user      == <<"u","s","e","r">>
Role_assistant == <<"a","s","s","i","s","t","a","n","t">>

\* ConversationMessage
ConversationMessage(timestamp, role, content, query, results) ==
    [timestamp |-> timestamp, role |-> role, content |-> content,
     query |-> query, results |-> results]

\* AgentSession with its default messages and context_cache.
AgentSession(session_id, created_at) ==
    [session_id |-> session_id, created_at |-> created_at,
     messages |-> <<>>, context_cache |-> <<>>]

\* start_session: the id installed for the argument (None, or Some(id)); an
\* absent or empty id is replaced by a generated one.
session_id_for(arg, t) ==
    IF arg = None \/ arg = Some(<<>>)
    THEN SessionPrefix \o strftime(t)
    ELSE arg[1]

start_session(arg, t) == AgentSession(session_id_for(arg, t), t)

-----------------------------------------------------------------------------
(* SnowflakeAIAgent.load_database_context                                  *)

\* tables[:10]
TableCap == 10

\* messages[-5:] in load_database_context, and in translate_query
HistoryWindow == 5
PromptWindow == 5

\* seq[:n]
FirstN(seq, n) == SubSeq(seq, 1, IF Len(seq) < n THEN Len(seq) ELSE n)

\* seq[-n:]
LastN(seq, n) ==
    SubSeq(seq, (IF Len(seq) < n THEN 0 ELSE Len(seq) - n) + 1, Len(seq))

\* One snowflake_client call as the log records it.
Call(op, arg) == [op |-> op, arg |-> arg]

\* The loop over tables[:10]. bad_info and bad_sample are the tables whose
\* get_table_info, get_sample_data raise. A table whose get_table_info raises
\* is skipped; one whose get_sample_data raises keeps the schema entry made
\* just before. Returns the two dictionaries' key sets and the calls made.
RECURSIVE load_tables(_, _, _)
load_tables(tables, bad_info, bad_sample) ==
    IF tables = <<>>
    THEN [table_schemas |-> {}, sample_data |-> {}, calls |-> <<>>]
    ELSE
        LET table == Head(tables)
            rest == load_tables(Tail(tables), bad_info, bad_sample)
        IN
        IF table \in bad_info
        THEN [rest EXCEPT !.calls = <<Call("get_table_info", table)>> \o @]
        ELSE IF table \in bad_sample
        THEN [rest EXCEPT
                !.table_schemas = {table} \cup @,
                !.calls = <<Call("get_table_info", table),
                            Call("get_sample_data", table)>> \o @]
        ELSE [rest EXCEPT
                !.table_schemas = {table} \cup @,
                !.sample_data = {table} \cup @,
                !.calls = <<Call("get_table_info", table),
                            Call("get_sample_data", table)>> \o @]

\* Mutant: every listed table is visited.
capped_tables_uncapped(tables) == tables

\* The tables the loop visits.
capped_tables(tables) == FirstN(tables, TableCap)

\* The conversation history put in the context: role and content of the
\* session's last messages.
conversation_history(session) ==
    IF session = None THEN <<>>
    ELSE LET recent == LastN(session[1].messages, HistoryWindow) IN
         [i \in 1..Len(recent) |->
             [role |-> recent[i].role, content |-> recent[i].content]]

\* Mutant: a table that fails to load makes the whole load fail.
load_database_context_strict(use_cache, session, stored, tables, list_fails, bad_info, bad_sample) ==
    IF use_cache /\ stored # None
    THEN [raised |-> FALSE, context |-> stored, stored |-> stored,
          calls |-> <<>>]
    ELSE IF list_fails
            \/ \E i \in 1..Len(capped_tables(tables)) :
                  capped_tables(tables)[i] \in bad_info \cup bad_sample
    THEN [raised |-> TRUE, context |-> None, stored |-> stored,
          calls |-> <<Call("list_tables", 0)>>]
    ELSE
        LET loaded == load_tables(capped_tables(tables), bad_info, bad_sample)
            context == [table_schemas |-> loaded.table_schemas,
                        sample_data |-> loaded.sample_data,
                        conversation_history |-> conversation_history(session)]
        IN  [raised |-> FALSE, context |-> Some(context),
             stored |-> Some(context),
             calls |-> <<Call("list_tables", 0)>> \o loaded.calls]

\* load_database_context(use_cache) on the agent (session, stored context)
\* against a warehouse that lists `tables`; list_fails says list_tables raises.
\* Returns whether it raised, the context returned, the context stored
\* afterwards and the warehouse calls made.
load_database_context(use_cache, session, stored, tables, list_fails, bad_info, bad_sample) ==
    IF use_cache /\ stored # None
    THEN [raised |-> FALSE, context |-> stored, stored |-> stored,
          calls |-> <<>>]
    ELSE IF list_fails
    THEN [raised |-> TRUE, context |-> None, stored |-> stored,
          calls |-> <<Call("list_tables", 0)>>]
    ELSE
        LET loaded == load_tables(capped_tables(tables), bad_info, bad_sample)
            context == [table_schemas |-> loaded.table_schemas,
                        sample_data |-> loaded.sample_data,
                        conversation_history |-> conversation_history(session)]
        IN  [raised |-> FALSE, context |-> Some(context),
             stored |-> Some(context),
             calls |-> <<Call("list_tables", 0)>> \o loaded.calls]

-----------------------------------------------------------------------------
(* QueryTranslator.translate_query                                         *)

\* The backquote character, which a TLA+ string cannot hold.
Backtick == "BACKQUOTE"

FenceSql == <<Backtick,Backtick,Backtick,"s","q","l">>
Fence    == <<Backtick,Backtick,Backtick>>

\* The clean-up of the raw completion text.
clean_completion(raw) ==
    LET s0 == strip(raw)
        s1 == IF startswith(s0, FenceSql) THEN SubSeq(s0, 7, Len(s0)) ELSE s0
        s2 == IF endswith(s1, Fence) THEN SubSeq(s1, 1, Len(s1) - 3) ELSE s1
    IN  strip(s2)

\* create_system_prompt: the prompt is a function of the context's schemas and
\* sample data.
create_system_prompt(context) ==
    [table_schemas |-> context.table_schemas, sample_data |-> context.sample_data]

\* The messages translate_query sends: the system prompt, the context's last
\* turns, the question.
completion_messages(natural_language, context) ==
    <<[role |-> <<"s","y","s","t","e","m">>, content |-> create_system_prompt(context)]>>
        \o LastN(context.conversation_history, PromptWindow)
        \o <<[role |-> Role_user, content |-> natural_language]>>

-----------------------------------------------------------------------------
(* SnowflakeAIAgent.process_query                                          *)

\* "Generated SQL query: "
GeneratedPrefix ==
    <<"G","e","n","e","r","a","t","e","d"," ","S","Q","L"," ","q","u","e","r","y",":"," ">>

\* len(results) if results else 0
row_count_of(results) == IF results # <<>> THEN Len(results) ELSE 0

\* Mutant: the error dictionary carries an (empty) sql_query.
error_response_with_sql(natural_language, error) ==
    [keys |-> {"natural_language", "sql_query", "error", "executed"},
     natural_language |-> natural_language, sql_query |-> Some(<<>>),
     validation |-> None, executed |-> FALSE, results |-> None,
     error |-> Some(error), suggestions |-> None, row_count |-> None]

\* The dictionary returned when the try block raised.
error_response(natural_language, error) ==
    [keys |-> {"natural_language", "error", "executed"},
     natural_language |-> natural_language, sql_query |-> None,
     validation |-> None, executed |-> FALSE, results |-> None,
     error |-> Some(error), suggestions |-> None, row_count |-> None]

\* Mutant: the SQL is executed whenever execution is requested.
should_execute_unchecked(execute, validation_result) == execute

\* Whether process_query hands the SQL to snowflake_client.execute_query.
should_execute(execute, validation_result) ==
    execute /\ validation_result.is_valid

\* Mutant: the Advisor is consulted for valid queries only.
response_suggestions_valid_only(sql_query, validation_result) ==
    IF validation_result.is_valid THEN suggest_improvements(sql_query) ELSE <<>>

\* The suggestions process_query puts in the response for the SQL.
response_suggestions(sql_query, validation_result) ==
    suggest_improvements(sql_query)

\* Mutant: an exception of execute_query is not caught where it is raised and
\* reaches the handler of the whole call.
query_response_uncaught(natural_language, sql_query, execute, exec) ==
    LET validation_result == validate_query(sql_query)
        base == [keys |-> {"natural_language", "sql_query", "validation",
                           "executed", "results", "error", "suggestions"},
                 natural_language |-> natural_language,
                 sql_query |-> Some(sql_query),
                 validation |-> Some(validation_result),
                 executed |-> FALSE, results |-> None, error |-> None,
                 suggestions |->
                     Some(response_suggestions(sql_query, validation_result)),
                 row_count |-> None]
    IN
    IF ~should_execute(execute, validation_result) THEN base
    ELSE IF exec.raised
    THEN error_response(natural_language, "execution failed")
    ELSE [base EXCEPT
            !.keys = @ \cup {"row_count"},
            !.executed = TRUE,
            !.results = Some(exec.rows),
            !.row_count = Some(row_count_of(exec.rows))]

\* The dictionary returned when translation succeeded. exec is the outcome of
\* snowflake_client.execute_query should it be called.
query_response(natural_language, sql_query, execute, exec) ==
    LET validation_result == validate_query(sql_query)
        base == [keys |-> {"natural_language", "sql_query", "validation",
                           "executed", "results", "error", "suggestions"},
                 natural_language |-> natural_language,
                 sql_query |-> Some(sql_query),
                 validation |-> Some(validation_result),
                 executed |-> FALSE, results |-> None, error |-> None,
                 suggestions |->
                     Some(response_suggestions(sql_query, validation_result)),
                 row_count |-> None]
    IN
    IF ~should_execute(execute, validation_result) THEN base
    ELSE IF exec.raised
    THEN [base EXCEPT !.error = Some("execution failed")]
    ELSE [base EXCEPT
            !.keys = @ \cup {"row_count"},
            !.executed = TRUE,
            !.results = Some(exec.rows),
            !.row_count = Some(row_count_of(exec.rows))]

\* Mutant: the generated SQL is recorded as a second user message.
history_messages_both_user(natural_language, sql_query, resp, t) ==
    <<ConversationMessage(t, Role_user, natural_language, None, None),
      ConversationMessage(t, Role_user, GeneratedPrefix \o sql_query,
                          Some(sql_query), resp.results)>>

\* Mutant: the assistant message is appended before the user message.
history_messages_swapped(natural_language, sql_query, resp, t) ==
    <<ConversationMessage(t, Role_assistant, GeneratedPrefix \o sql_query,
                          Some(sql_query), resp.results),
      ConversationMessage(t, Role_user, natural_language, None, None)>>

\* The two messages appended for a translated query.
history_messages(natural_language, sql_query, resp, t) ==
    <<ConversationMessage(t, Role_user, natural_language, None, None),
      ConversationMessage(t, Role_assistant, GeneratedPrefix \o sql_query,
                          Some(sql_query), resp.results)>>

-----------------------------------------------------------------------------
(* SnowflakeAIAgent.get_session_summary                                    *)

\* Mutant: the queries counted are those that were executed.
get_session_summary_executed(session) ==
    IF session = None
    THEN [keys |-> {"error"}, error |-> Some("No active session"),
          session_id |-> None, created_at |-> None, message_count |-> None,
          queries_executed |-> None]
    ELSE [keys |-> {"session_id", "created_at", "message_count",
                    "queries_executed"},
          error |-> None,
          session_id |-> Some(session[1].session_id),
          created_at |-> Some(session[1].created_at),
          message_count |-> Some(Len(session[1].messages)),
          queries_executed |->
              Some(Cardinality({i \in 1..Len(session[1].messages) :
                      session[1].messages[i].results # None}))]

\* get_session_summary: `if msg.query` holds for a query that is neither None
\* nor the empty string.
get_session_summary(session) ==
    IF session = None
    THEN [keys |-> {"error"}, error |-> Some("No active session"),
          session_id |-> None, created_at |-> None, message_count |-> None,
          queries_executed |-> None]
    ELSE [keys |-> {"session_id", "created_at", "message_count",
                    "queries_executed"},
          error |-> None,
          session_id |-> Some(session[1].session_id),
          created_at |-> Some(session[1].created_at),
          message_count |-> Some(Len(session[1].messages)),
          queries_executed |->
              Some(Cardinality({i \in 1..Len(session[1].messages) :
                      /\ session[1].messages[i].query # None
                      /\ session[1].messages[i].query[1] # <<>>}))]

-----------------------------------------------------------------------------
(* datetime.isoformat, datetime.fromisoformat, JSON strings                *)

\* The value of a decimal digit character.
DigitValue(c) == (CHOOSE i \in 1..10 : Digits[i] = c) - 1

\* Mutant: the fraction of a second is never written.
isoformat_truncated(t) == TwoDigits(t \div TicksPerSecond)

\* datetime.isoformat(): the seconds, then the fraction of a second unless it
\* is zero.
isoformat(t) ==
    TwoDigits(t \div TicksPerSecond)
        \o (IF t % TicksPerSecond = 0 THEN <<>>
            ELSE <<".", Digits[(t % TicksPerSecond) + 1]>>)

\* datetime.fromisoformat(): the fraction is optional.
fromisoformat(s) ==
    (DigitValue(s[1]) * 10 + DigitValue(s[2])) * TicksPerSecond
        + (IF Len(s) > 2 THEN DigitValue(s[4]) ELSE 0)

\* The order of the characters of an ISO timestamp by code point.
CodePoint(c) == CHOOSE i \in 1..Len(<<".","0","1","2","3","4","5","6","7","8","9">>) : <<".","0","1","2","3","4","5","6","7","8","9">>[i] = c

\* a < b on Python strings: by the first differing character, a proper prefix
\* first.
RECURSIVE str_less(_, _)
str_less(a, b) ==
    IF b = <<>> THEN FALSE
    ELSE IF a = <<>> THEN TRUE
    ELSE IF Head(a) = Head(b) THEN str_less(Tail(a), Tail(b))
    ELSE CodePoint(Head(a)) < CodePoint(Head(b))

\* json.dump of a str, ensure_ascii=False: quoted, with the quote, the
\* backslash and the newline escaped.
RECURSIVE json_escape(_)
json_escape(s) ==
    IF s = <<>> THEN <<>>
    ELSE (CASE Head(s) = "\"" -> <<"\\", "\"">>
            [] Head(s) = "\\" -> <<"\\", "\\">>
            [] Head(s) = "\n" -> <<"\\", "n">>
            [] OTHER -> <<Head(s)>>)
         \o json_escape(Tail(s))

json_dump_str(s) == <<"\"">> \o json_escape(s) \o <<"\"">>

\* json.load of the inside of a JSON string.
RECURSIVE json_unescape(_)
json_unescape(s) ==
    IF s = <<>> THEN <<>>
    ELSE IF Head(s) = "\\"
    THEN (IF s[2] = "n" THEN <<"\n">> ELSE <<s[2]>>)
         \o json_unescape(SubSeq(s, 3, Len(s)))
    ELSE <<Head(s)>> \o json_unescape(Tail(s))

json_load_str(j) == json_unescape(SubSeq(j, 2, Len(j) - 1))


\* json.dump of an Optional[str], and its json.load.
json_dump_optional(v) == IF v = None THEN <<"n","u","l","l">> ELSE json_dump_str(v[1])
json_load_optional(j) == IF j = <<"n","u","l","l">> THEN None ELSE Some(json_load_str(j))

-----------------------------------------------------------------------------
(* ConversationManager                                                     *)


\* f"{session_id}.json"
session_filename(session_id) == session_id \o <<".","j","s","o","n">>

\* The document save_session writes for a session.
session_document(session) ==
    [session_id |-> json_dump_str(session.session_id),
     created_at |-> json_dump_str(isoformat(session.created_at)),
     messages |->
        [i \in 1..Len(session.messages) |->
            [timestamp |-> json_dump_str(isoformat(session.messages[i].timestamp)),
             role |-> json_dump_str(session.messages[i].role),
             content |-> json_dump_str(session.messages[i].content),
             query |-> json_dump_optional(session.messages[i].query),
             results |-> session.messages[i].results]],
     context_cache |-> session.context_cache]

\* The AgentSession load_session builds from a document.
session_from_document(doc) ==
    [session_id |-> json_load_str(doc.session_id),
     created_at |-> fromisoformat(json_load_str(doc.created_at)),
     messages |->
        [i \in 1..Len(doc.messages) |->
            ConversationMessage(
                fromisoformat(json_load_str(doc.messages[i].timestamp)),
                json_load_str(doc.messages[i].role),
                json_load_str(doc.messages[i].content),
                json_load_optional(doc.messages[i].query),
                doc.messages[i].results)],
     context_cache |-> doc.context_cache]

\* The directory with one file written (created or replaced).
write_file(dir, name, doc) ==
    [n \in DOMAIN dir \cup {name} |-> IF n = name THEN doc ELSE dir[n]]

\* The directory with one file removed.
unlink_file(dir, name) == [n \in DOMAIN dir \ {name} |-> dir[n]]

\* Mutant: the file is named after the session id and the creation time.
save_session_per_creation(dir, session) ==
    [files |-> write_file(dir,
                   session_filename(session.session_id
                                    \o strftime(session.created_at)),
                   session_document(session)),
     value |-> session_filename(session.session_id
                                \o strftime(session.created_at))]

\* save_session: the directory afterwards and the path returned.
save_session(dir, session) ==
    [files |-> write_file(dir, session_filename(session.session_id),
                          session_document(session)),
     value |-> session_filename(session.session_id)]

\* Whether json.load and the conversion read a file's content: a file that a
\* failed write left behind holds no session document.
decodable(doc) == "session_id" \in DOMAIN doc

\* load_session: None when the file does not exist, and None when reading it
\* raises, the exception being caught and logged.
load_session(dir, session_id) ==
    IF session_filename(session_id) \notin DOMAIN dir
    THEN None
    ELSE IF ~decodable(dir[session_filename(session_id)])
    THEN None
    ELSE Some(session_from_document(dir[session_filename(session_id)]))

\* Mutant: a missing file is reported as deleted.
delete_session_always_true(dir, session_id) ==
    [files |-> unlink_file(dir, session_filename(session_id)), value |-> TRUE]

\* delete_session: the directory afterwards and the boolean returned.
delete_session(dir, session_id) ==
    IF session_filename(session_id) \in DOMAIN dir
    THEN [files |-> unlink_file(dir, session_filename(session_id)),
          value |-> TRUE]
    ELSE [files |-> dir, value |-> FALSE]

\* The entry list_sessions makes for one file.
session_entry(dir, name) ==
    [session_id |-> json_load_str(dir[name].session_id),
     created_at |-> json_load_str(dir[name].created_at),
     message_count |-> Len(dir[name].messages),
     file_path |-> name]

\* Mutant: the sort is ascending (reverse=True forgotten).
RECURSIVE insert_ascending(_, _)
insert_ascending(entry, sorted) ==
    IF sorted = <<>> THEN <<entry>>
    ELSE IF str_less(entry.created_at, Head(sorted).created_at)
    THEN <<entry>> \o sorted
    ELSE <<Head(sorted)>> \o insert_ascending(entry, Tail(sorted))

\* sessions.sort(key=created_at, reverse=True): a stable sort, so an entry goes
\* behind the entries whose key is not smaller.
RECURSIVE insert_descending(_, _)
insert_descending(entry, sorted) ==
    IF sorted = <<>> THEN <<entry>>
    ELSE IF str_less(Head(sorted).created_at, entry.created_at)
    THEN <<entry>> \o sorted
    ELSE <<Head(sorted)>> \o insert_descending(entry, Tail(sorted))

RECURSIVE sort_newest_first(_)
sort_newest_first(entries) ==
    IF entries = <<>> THEN <<>>
    ELSE insert_descending(entries[Len(entries)],
             sort_newest_first(SubSeq(entries, 1, Len(entries) - 1)))

\* list_sessions, the glob having yielded the file names in the order given;
\* a file that cannot be read is skipped.
list_sessions(dir, glob_order) ==
    LET Readable(name) == decodable(dir[name])
        read == SelectSeq(glob_order, Readable)
    IN  sort_newest_first([i \in 1..Len(read) |-> session_entry(dir, read[i])])

\* The orders in which glob("*.json") may yield the files of the directory.
GlobOrders(dir) ==
    {order \in [1..Cardinality(DOMAIN dir) -> DOMAIN dir] :
        \A i, j \in 1..Cardinality(DOMAIN dir) : i # j => order[i] # order[j]}

-----------------------------------------------------------------------------
(* The sessions handed to the ConversationManager                          *)

\* The latest creation time of a session, in ticks.
MaxCreated == 2

\* The most messages a saved session holds.
MaxMessages == 1

\* The session ids saved, loaded and deleted.
StoredIds == {<<"a">>, <<"b">>}

\* A text with characters JSON escapes.
Content_Quoted ==
    <<"s","a","y"," ","\"","a","\\","b","\"","\n">>


\* ConversationManager.__init__ on an empty directory.
StoreEmpty ==
    /\ files = <<>>
    /\ saved = <<>>
    /\ store_result = None
    /\ store_fault = None

-----------------------------------------------------------------------------
(* The agent's environment: questions, completions, the warehouse          *)

\* The process_query calls of one run.
MaxQueries == 2

\* The most tables the warehouse lists when only the context is loaded.
MaxTables == 15




\* The raw texts the completion service answers with.
Raw_FencedSelect ==
    <<Backtick,Backtick,Backtick,"s","q","l","\n","S","E","L","E","C","T"," ","*"," ","F","R","O","M"," ","t","\n",Backtick,Backtick,Backtick>>

\* What snowflake_client.execute_query does with the generated SQL: raise, or
\* return the rows fetched.
ExecOutcomes ==
    {[raised |-> TRUE, rows |-> <<>>],
     [raised |-> FALSE, rows |-> <<>>],
     [raised |-> FALSE, rows |-> <<"row">>]}

\* The tables that may fail to load: none, the first ones, the last one
\* inside the cap, the first one beyond it.
FailingTableChoices == {{}, {1}, {2}, {1, 2}, {TableCap}, {TableCap + 1}}

\* A warehouse listing n tables, named 1..n in listing order.
TableList(n) == [i \in 1..n |-> i]

\* A warehouse with n tables, some of which may fail to load.
FailingWarehouse(n) ==
    /\ warehouse_tables = TableList(n)
    /\ warehouse_bad_info \in {b \in FailingTableChoices : b \subseteq 1..n}
    /\ warehouse_bad_sample \in {b \in FailingTableChoices : b \subseteq 1..n}

\* A warehouse with n tables, all of which load.
SoundWarehouse(n) ==
    /\ warehouse_tables = TableList(n)
    /\ warehouse_bad_info = {}
    /\ warehouse_bad_sample = {}

-----------------------------------------------------------------------------
(* The agent as a state machine                                            *)

\* No string is being validated.
TranslatorIdle ==
    /\ sql = <<>>
    /\ validation = None
    /\ suggestions = None

\* SnowflakeAIAgent.__init__, before any call.
AgentConstructed ==
    /\ current_session = None
    /\ database_context = None
    /\ request = None
    /\ response = None
    /\ warehouse_calls = <<>>
    /\ completion_request = None
    /\ load_result = None
    /\ now = 0
    /\ queries = 0

\* The agent, unused, with no warehouse behind it.
AgentIdle ==
    /\ AgentConstructed
    /\ warehouse_tables = <<>>
    /\ warehouse_bad_info = {}
    /\ warehouse_bad_sample = {}

warehouse_vars == <<warehouse_tables, warehouse_bad_info, warehouse_bad_sample>>

\* self.connection = None, and the driver has opened nothing yet.
NotConnected ==
    /\ connection = None
    /\ driver = [opened |-> 0, open |-> {}, cursors |-> 0]
    /\ client_call = None

\* No SnowflakeClient has been constructed.
ClientIdle ==
    /\ settings = None
    /\ connection_params = None
    /\ NotConnected

\* What a call that is not process_query leaves of the last query.
NoQuery ==
    /\ request' = None
    /\ response' = None
    /\ completion_request' = None

\* agent.start_session(arg)
StartSession ==
    \E arg \in {None, Some(<<>>), Some(<<"t","e","s","t">>)} :
        /\ current_session' = Some(start_session(arg, now))
        /\ request' = Some([op |-> "start_session", session_id |-> arg,
                            returned |-> session_id_for(arg, now)])
        /\ response' = None
        /\ completion_request' = None
        /\ warehouse_calls' = <<>>
        /\ load_result' = None
        /\ UNCHANGED <<translator_vars, store_vars, client_vars, database_context,
                       warehouse_vars, now, queries>>

\* The outcomes of list_tables that matter: none when the stored context is
\* reused.
ListOutcomes(use_cache) ==
    IF use_cache /\ database_context # None THEN {FALSE} ELSE BOOLEAN

\* agent.load_database_context(use_cache)
LoadDatabaseContext ==
    \E use_cache \in BOOLEAN : \E list_fails \in ListOutcomes(use_cache) :
        LET r == load_database_context(use_cache, current_session,
                     database_context, warehouse_tables, list_fails,
                     warehouse_bad_info, warehouse_bad_sample)
        IN
        /\ database_context' = r.stored
        /\ load_result' = Some([use_cache |-> use_cache,
                                list_failed |-> list_fails, raised |-> r.raised,
                                context |-> r.context])
        /\ warehouse_calls' = r.calls
        /\ NoQuery
        /\ UNCHANGED <<translator_vars, store_vars, client_vars, current_session,
                       warehouse_vars, now, queries>>

\* Mutant: the new messages take the place of the history.
with_messages_replacing(session, new_messages) ==
    Some([session[1] EXCEPT !.messages = new_messages])

\* The session with messages appended.
with_messages(session, new_messages) ==
    Some([session[1] EXCEPT !.messages = @ \o new_messages])

\* The session process_query works on: the current one, or one it starts.
session_for_query(session, t) ==
    IF session = None THEN Some(start_session(None, t)) ELSE session

\* process_query when load_database_context raises.
ProcessQueryContextFails(natural_language, execute) ==
    LET session == session_for_query(current_session, now)
        loaded == load_database_context(TRUE, session, database_context,
                      warehouse_tables, TRUE, warehouse_bad_info,
                      warehouse_bad_sample)
    IN
    /\ loaded.raised
    /\ current_session' = session
    /\ database_context' = loaded.stored
    /\ response' = Some(error_response(natural_language, "context load failed"))
    /\ completion_request' = None
    /\ warehouse_calls' = loaded.calls

\* process_query when the context loads and the completion call raises.
ProcessQueryCompletionFails(natural_language, execute) ==
    LET session == session_for_query(current_session, now)
        loaded == load_database_context(TRUE, session, database_context,
                      warehouse_tables, FALSE, warehouse_bad_info,
                      warehouse_bad_sample)
    IN
    /\ current_session' = session
    /\ database_context' = loaded.stored
    /\ response' = Some(error_response(natural_language, "completion failed"))
    /\ completion_request' =
           Some(completion_messages(natural_language, loaded.context[1]))
    /\ warehouse_calls' = loaded.calls

\* The outcomes of execute_query that matter: none when it is not called.
ExecOutcomesFor(execs, execute, sql_query) ==
    IF should_execute(execute, validate_query(sql_query))
    THEN execs
    ELSE {[raised |-> FALSE, rows |-> <<>>]}

\* process_query when the context loads and the completion answers raw.
ProcessQueryTranslated(natural_language, execute, raw, execs) ==
    LET session == session_for_query(current_session, now)
        loaded == load_database_context(TRUE, session, database_context,
                      warehouse_tables, FALSE, warehouse_bad_info,
                      warehouse_bad_sample)
        sql_query == clean_completion(raw)
    IN
    \E exec \in ExecOutcomesFor(execs, execute, sql_query) :
        LET resp == query_response(natural_language, sql_query, execute, exec)
        IN
        /\ current_session' =
               with_messages(session,
                   history_messages(natural_language, sql_query, resp, now))
        /\ database_context' = loaded.stored
        /\ response' = Some(resp)
        /\ completion_request' =
               Some(completion_messages(natural_language, loaded.context[1]))
        /\ warehouse_calls' =
               loaded.calls \o
               (IF should_execute(execute, validate_query(sql_query))
                THEN <<Call("execute_query", sql_query)>>
                ELSE <<>>)

\* agent.process_query(natural_language, execute), for the questions, raw
\* completions and execution outcomes given, at most max times in a run.
ProcessQueryWith(questions, completions, execs, max) ==
    \E natural_language \in questions, execute \in BOOLEAN :
        /\ queries < max
        /\ queries' = queries + 1
        /\ request' = Some([op |-> "process_query",
                            natural_language |-> natural_language,
                            execute |-> execute])
        /\ load_result' = None
        /\ \/ ProcessQueryContextFails(natural_language, execute)
           \/ ProcessQueryCompletionFails(natural_language, execute)
           \/ \E raw \in completions :
                 ProcessQueryTranslated(natural_language, execute, raw, execs)
        /\ UNCHANGED <<translator_vars, store_vars, client_vars, warehouse_vars, now>>

ProcessQuery ==
    ProcessQueryWith({<<"q","1">>, <<"q","2">>}, {Raw_FencedSelect, <<"D","E","L","E","T","E"," ","F","R","O","M"," ","t">>}, ExecOutcomes, MaxQueries)

\* The agent processing queries against a small warehouse.
InitAgent ==
    /\ TranslatorIdle
    /\ StoreEmpty
    /\ AgentConstructed
    /\ ClientIdle
    /\ \E n \in {0, 2} : SoundWarehouse(n)

NextAgent == StartSession \/ LoadDatabaseContext \/ ProcessQuery

SpecAgent == InitAgent /\ [][NextAgent]_vars

-----------------------------------------------------------------------------
(* SnowflakeClient: the connection parameters and the authentication method *)

\* str.lower(): letters A-Z map to a-z, the rest is kept.
lower(s) ==
    [i \in 1..Len(s) |->
        IF \E c \in DOMAIN UpperOf : UpperOf[c] = s[i]
        THEN CHOOSE c \in DOMAIN UpperOf : UpperOf[c] = s[i]
        ELSE s[i]]

\* snowflake_settings and the environment of the process: the private key path
\* (unset, naming a loadable key, naming no file, naming a file that does not
\* load), the authenticator, the OAuth token, SNOWFLAKE_PASSWORD_SECURE and the
\* configured password.  Unset options and empty strings are None.
Settings ==
    [private_key_path : {"unset", "loadable", "missing", "unloadable"},
     authenticator : {None, Some(<<"e","x","t","e","r","n","a","l","b","r","o","w","s","e","r">>), Some(<<"E","X","T","E","R","N","A","L","B","R","O","W","S","E","R">>),
                      Some(<<"o","a","u","t","h">>), Some(<<"o","k","t","a">>)},
     oauth_token : {None, Some("token")},
     password_from_env : {None, Some("env-password")},
     password : {None, Some("PROMPT"), Some("your_password"),
                 Some("configured-password")}]

\* SnowflakeClient.__init__ with _setup_authentication: the parameters built
\* from the settings, a function from the keys present to their values; None
\* when loading the private key raises and no client comes to exist.
setup_authentication(cfg) ==
    LET base == [k \in {"account", "user", "warehouse", "database", "schema"}
                    |-> Some("configured")]
        with_authenticator ==
            IF cfg.authenticator # None
            THEN ("authenticator" :> cfg.authenticator) @@ base
            ELSE base
        password_methods ==
            IF cfg.password_from_env # None
            THEN ("password" :> cfg.password_from_env) @@ with_authenticator
            ELSE IF cfg.password # None
                    /\ cfg.password \notin {Some("your_password"), Some("PROMPT")}
                 THEN ("password" :> cfg.password) @@ with_authenticator
                 ELSE ("password" :> None) @@ with_authenticator
    IN  IF cfg.private_key_path \in {"loadable", "unloadable"}
        THEN IF cfg.private_key_path = "loadable"
             THEN Some(("private_key" :> Some("key-bytes")) @@ base)
             ELSE None
        ELSE IF cfg.authenticator # None
                /\ lower(cfg.authenticator[1]) = <<"e","x","t","e","r","n","a","l","b","r","o","w","s","e","r">>
             THEN Some(with_authenticator)
             ELSE IF cfg.authenticator # None
                     /\ lower(cfg.authenticator[1]) = <<"o","a","u","t","h">>
                  THEN IF cfg.oauth_token # None
                       THEN Some(("token" :> cfg.oauth_token) @@ with_authenticator)
                       ELSE Some(with_authenticator)
                  ELSE Some(password_methods)

\* SnowflakeClient.connect up to the driver call: the parameters handed to
\* snowflake.connector.connect, after the password prompt when it is shown.
connect(params, typed) ==
    LET get(key) == IF key \in DOMAIN params THEN params[key] ELSE None
    IN
    IF /\ get("password") = None
       /\ "private_key" \notin DOMAIN params
       /\ get("authenticator") # Some(<<"e","x","t","e","r","n","a","l","b","r","o","w","s","e","r">>)
    THEN ("password" :> Some(typed)) @@ params
    ELSE params

\* The driver call of connect: snowflake.connector.connect(**params) returns a
\* new open connection, numbered in the order of opening, which is assigned to
\* self.connection; or it raises and self.connection stays as it was.
open_connection(conn, drv, ok) ==
    IF ok
    THEN [connection |-> Some(drv.opened + 1),
          driver |-> [drv EXCEPT !.opened = @ + 1,
                                 !.open = @ \cup {drv.opened + 1}],
          raised |-> FALSE, acquired |-> 0]
    ELSE [connection |-> conn, driver |-> drv, raised |-> TRUE, acquired |-> 0]

\* SnowflakeClient.disconnect
disconnect(conn, drv) ==
    IF conn # None
    THEN [connection |-> None, driver |-> [drv EXCEPT !.open = @ \ {conn[1]}]]
    ELSE [connection |-> conn, driver |-> drv]

\* Mutant: the cursor is closed only when the query succeeds.
execute_query_close_on_success(conn, drv, out) ==
    LET held == IF conn = None
                THEN open_connection(conn, drv, out.connect_ok)
                ELSE [connection |-> conn, driver |-> drv, raised |-> FALSE,
                      acquired |-> 0]
    IN  IF held.raised \/ ~out.cursor_ok
        THEN [held EXCEPT !.raised = TRUE]
        ELSE [held EXCEPT !.raised = ~out.execute_ok, !.acquired = 1,
                          !.driver.cursors = IF out.execute_ok THEN @ ELSE @ + 1]

\* SnowflakeClient.execute_query and execute_query_to_dataframe, with
\* get_cursor: connect when no connection is held, take a cursor from the
\* connection, run the query, and close the cursor in the finally clause.
\* out says which of the driver calls succeed. driver.cursors counts the
\* cursors open; acquired those the call took.
execute_query(conn, drv, out) ==
    LET held == IF conn = None
                THEN open_connection(conn, drv, out.connect_ok)
                ELSE [connection |-> conn, driver |-> drv, raised |-> FALSE,
                      acquired |-> 0]
    IN  IF held.raised \/ ~out.cursor_ok
        THEN [held EXCEPT !.raised = TRUE]
        ELSE [held EXCEPT !.raised = ~out.execute_ok, !.acquired = 1,
                          !.driver.cursors = (@ + 1) - 1]

\* Mutant: the connection is closed only after a failure.
test_connection_keeps_open(conn, drv, out) ==
    LET opened == open_connection(conn, drv, out.connect_ok)
        probed == IF opened.raised THEN opened
                  ELSE execute_query(opened.connection, opened.driver, out)
        closed == IF probed.raised
                  THEN disconnect(probed.connection, probed.driver)
                  ELSE [connection |-> probed.connection,
                        driver |-> probed.driver]
    IN  [connection |-> closed.connection, driver |-> closed.driver,
         raised |-> FALSE, result |-> ~probed.raised,
         acquired |-> probed.acquired]

\* SnowflakeClient.test_connection: connect, probe, return whether both
\* succeeded, and disconnect in the finally clause.
test_connection(conn, drv, out) ==
    LET opened == open_connection(conn, drv, out.connect_ok)
        probed == IF opened.raised THEN opened
                  ELSE execute_query(opened.connection, opened.driver, out)
        closed == disconnect(probed.connection, probed.driver)
    IN  [connection |-> closed.connection, driver |-> closed.driver,
         raised |-> FALSE, result |-> ~probed.raised,
         acquired |-> probed.acquired]

\* The connections the driver opens in a run.
MaxConnections == 3

\* client = SnowflakeClient()
Construct ==
    /\ settings # None
    /\ connection_params = None
    /\ connection_params' = setup_authentication(settings[1])
    /\ UNCHANGED <<translator_vars, agent_vars, store_vars, settings,
                   connection, driver, client_call>>

\* client.connect(), the user typing a password when asked for one
Connect ==
    /\ connection_params # None
    /\ driver.opened < MaxConnections
    /\ connection_params' = Some(connect(connection_params[1], "typed-password"))
    /\ \E ok \in BOOLEAN :
          LET r == open_connection(connection, driver, ok) IN
          /\ connection' = r.connection
          /\ driver' = r.driver
          /\ client_call' = Some([op |-> "connect", held |-> connection,
                                  raised |-> r.raised, result |-> ~r.raised,
                                  acquired |-> 0])
    /\ UNCHANGED <<translator_vars, agent_vars, store_vars, settings>>

\* client.disconnect()
Disconnect ==
    /\ connection_params # None
    /\ LET r == disconnect(connection, driver) IN
          /\ connection' = r.connection
          /\ driver' = r.driver
    /\ client_call' = Some([op |-> "disconnect", held |-> connection,
                            raised |-> FALSE, result |-> TRUE, acquired |-> 0])
    /\ UNCHANGED <<translator_vars, agent_vars, store_vars, settings,
                   connection_params>>

\* client.execute_query(query) or client.execute_query_to_dataframe(query);
\* list_tables, get_table_info and get_sample_data are execute_query calls.
\* The password is asked for when the call has to connect.
ExecuteQuery ==
    /\ connection_params # None
    /\ driver.opened < MaxConnections
    /\ \E op \in {"execute_query", "execute_query_to_dataframe"} :
       \E out \in [connect_ok : BOOLEAN, cursor_ok : BOOLEAN, execute_ok : BOOLEAN] :
          LET r == execute_query(connection, driver, out) IN
          /\ connection' = r.connection
          /\ driver' = r.driver
          /\ client_call' = Some([op |-> op, held |-> connection,
                                  raised |-> r.raised, result |-> ~r.raised,
                                  acquired |-> r.acquired])
    /\ connection_params' =
          IF connection = None
          THEN Some(connect(connection_params[1], "typed-password"))
          ELSE connection_params
    /\ UNCHANGED <<translator_vars, agent_vars, store_vars, settings>>

\* client.test_connection()
TestConnection ==
    /\ connection_params # None
    /\ driver.opened < MaxConnections
    /\ \E out \in [connect_ok : BOOLEAN, cursor_ok : BOOLEAN, execute_ok : BOOLEAN] :
          LET r == test_connection(connection, driver, out) IN
          /\ connection' = r.connection
          /\ driver' = r.driver
          /\ client_call' = Some([op |-> "test_connection", held |-> connection,
                                  raised |-> r.raised, result |-> r.result,
                                  acquired |-> r.acquired])
    /\ connection_params' = Some(connect(connection_params[1], "typed-password"))
    /\ UNCHANGED <<translator_vars, agent_vars, store_vars, settings>>

\* The process starts with some settings in force and no client.
InitClient ==
    /\ TranslatorIdle
    /\ AgentIdle
    /\ StoreEmpty
    /\ settings \in {Some(cfg) : cfg \in Settings}
    /\ connection_params = None
    /\ NotConnected

NextClient == Construct \/ Connect

SpecClient == InitClient /\ [][NextClient]_vars

\* A client constructed from settings with a configured password or with
\* none, which makes connect ask for it.
InitConnection ==
    /\ TranslatorIdle
    /\ AgentIdle
    /\ StoreEmpty
    /\ settings \in {Some(cfg) : cfg \in
                        {c \in Settings :
                            /\ c.private_key_path = "unset"
                            /\ c.authenticator = None
                            /\ c.oauth_token = None
                            /\ c.password_from_env = None
                            /\ c.password \in {None, Some("configured-password")}}}
    /\ connection_params = setup_authentication(settings[1])
    /\ NotConnected

NextConnection == Connect \/ Disconnect \/ ExecuteQuery \/ TestConnection

SpecConnection == InitConnection /\ [][NextConnection]_vars

\* The ticks the clock advances in a run.
MaxTime == 2

\* Time passes between two calls.
Tick ==
    /\ now < MaxTime
    /\ now' = now + 1
    /\ UNCHANGED <<translator_vars, store_vars, client_vars, current_session,
                   database_context, request, response, warehouse_vars,
                   warehouse_calls, completion_request, load_result, queries>>

\* agent.get_session_summary()
GetSessionSummary ==
    /\ request' = Some([op |-> "get_session_summary"])
    /\ response' = Some(get_session_summary(current_session))
    /\ completion_request' = None
    /\ warehouse_calls' = <<>>
    /\ load_result' = None
    /\ UNCHANGED <<translator_vars, store_vars, client_vars, current_session,
                   database_context, warehouse_vars, now, queries>>

\* The raw completions of a run that is summarised: fenced SQL, and a fence
\* with nothing in it, which cleans up to the empty string.
SessionCompletions ==
    {Raw_FencedSelect,
     <<Backtick,Backtick,Backtick,"s","q","l","\n",Backtick,Backtick,Backtick>>}

\* Sessions started, used and summarised while the clock advances.
NextSession ==
    \/ StartSession
    \/ Tick
    \/ GetSessionSummary
    \/ ProcessQueryWith({<<"q", "1">>}, SessionCompletions, ExecOutcomes, MaxQueries)

SpecSession == InitAgent /\ [][NextSession]_vars

\* The agent loading its context from a warehouse with more tables than the
\* cap admits.
InitContext ==
    /\ TranslatorIdle
    /\ StoreEmpty
    /\ AgentConstructed
    /\ ClientIdle
    /\ \E n \in 0..MaxTables : FailingWarehouse(n)

NextContext == StartSession \/ LoadDatabaseContext

SpecContext == InitContext /\ [][NextContext]_vars

\* The agent processing queries against a warehouse of two tables, some of
\* which may fail to load.
InitContextQuery ==
    /\ TranslatorIdle
    /\ StoreEmpty
    /\ AgentConstructed
    /\ ClientIdle
    /\ FailingWarehouse(2)

NextContextQuery ==
    \/ NextContext
    \/ ProcessQueryWith({<<"q", "1">>}, {Raw_FencedSelect}, ExecOutcomes, MaxQueries)

SpecContextQuery == InitContextQuery /\ [][NextContextQuery]_vars

-----------------------------------------------------------------------------
(* The ConversationManager as a state machine                              *)

StoreResult(op, arg, value) == Some([op |-> op, arg |-> arg, value |-> value])

\* manager.save_session(session)
SaveSession ==
    \E id \in StoredIds, created \in 0..MaxCreated, n \in 0..MaxMessages :
        \E messages \in [1..n -> {ConversationMessage(2, Role_user, <<"T","e","s","t"," ","m","e","s","s","a","g","e">>, None, None), ConversationMessage(1, Role_assistant, Content_Quoted, Some(Content_Quoted), None)}] :
            LET session == [AgentSession(id, created)
                                EXCEPT !.messages = messages]
                r == save_session(files, session)
            IN
            /\ files' = r.files
            /\ saved' = write_file(saved, r.value, session)
            /\ store_result' = StoreResult("save_session", Some(id),
                                           Some(r.value))
            /\ store_fault' = None
            /\ UNCHANGED <<translator_vars, agent_vars, client_vars>>

\* manager.load_session(session_id)
LoadSession ==
    \E id \in StoredIds :
        /\ store_result' = StoreResult("load_session", Some(id),
                                       load_session(files, id))
        /\ store_fault' =
               IF /\ session_filename(id) \in DOMAIN files
                  /\ ~decodable(files[session_filename(id)])
               THEN Some([error |-> "decode", raised |-> FALSE])
               ELSE None
        /\ UNCHANGED <<translator_vars, agent_vars, client_vars, files, saved>>

\* manager.delete_session(session_id)
DeleteSession ==
    \E id \in StoredIds :
        LET r == delete_session(files, id) IN
        /\ files' = r.files
        /\ saved' = unlink_file(saved, session_filename(id))
        /\ store_result' = StoreResult("delete_session", Some(id),
                                       Some(r.value))
        /\ store_fault' = None
        /\ UNCHANGED <<translator_vars, agent_vars, client_vars>>

\* manager.list_sessions()
ListSessions ==
    \E glob_order \in GlobOrders(files) :
        /\ store_result' = StoreResult("list_sessions", None,
                                       Some(list_sessions(files, glob_order)))
        /\ store_fault' =
               IF \E n \in DOMAIN files : ~decodable(files[n])
               THEN Some([error |-> "decode", raised |-> FALSE])
               ELSE None
        /\ UNCHANGED <<translator_vars, agent_vars, client_vars, files, saved>>

\* manager.export_session(session_id, "json") for one of the ids given: the
\* session is loaded and, when there is one, saved again.
ExportSessionIn(ids) ==
    \E id \in ids :
        LET loaded == load_session(files, id)
            r == save_session(files, loaded[1])
        IN
        /\ files' = IF loaded = None THEN files ELSE r.files
        /\ saved' = IF loaded = None THEN saved
                    ELSE write_file(saved, r.value, loaded[1])
        /\ store_result' =
               StoreResult("export_session", Some(id),
                           IF loaded = None THEN None ELSE Some(r.value))
        /\ store_fault' =
               IF /\ session_filename(id) \in DOMAIN files
                  /\ ~decodable(files[session_filename(id)])
               THEN Some([error |-> "decode", raised |-> FALSE])
               ELSE None
        /\ UNCHANGED <<translator_vars, agent_vars, client_vars>>

\* manager.save_session(agent.current_session)
SaveCurrentSession ==
    /\ current_session # None
    /\ LET r == save_session(files, current_session[1]) IN
          /\ files' = r.files
          /\ saved' = write_file(saved, r.value, current_session[1])
          /\ store_result' =
                 StoreResult("save_session",
                             Some(current_session[1].session_id), Some(r.value))
    /\ store_fault' = None
    /\ UNCHANGED <<translator_vars, agent_vars, client_vars>>

\* manager.save_session(session) when writing the file raises: the exception
\* is logged and raised again. The file is left as it was when it could not be
\* opened, and cut short when the error came while it was written.
SaveSessionFails ==
    \E id \in StoredIds, opened \in BOOLEAN :
        /\ files' = IF opened
                    THEN write_file(files, session_filename(id),
                                    [truncated |-> TRUE])
                    ELSE files
        /\ saved' = IF opened THEN unlink_file(saved, session_filename(id))
                    ELSE saved
        /\ store_result' = StoreResult("save_session", Some(id), None)
        /\ store_fault' = Some([error |-> "io", raised |-> TRUE])
        /\ UNCHANGED <<translator_vars, agent_vars, client_vars>>

\* manager.delete_session(session_id) when unlink raises: the exception is
\* logged and False returned.
DeleteSessionFails ==
    \E id \in StoredIds :
        /\ session_filename(id) \in DOMAIN files
        /\ store_result' = StoreResult("delete_session", Some(id), Some(FALSE))
        /\ store_fault' = Some([error |-> "io", raised |-> FALSE])
        /\ UNCHANGED <<translator_vars, agent_vars, client_vars, files, saved>>

InitStore ==
    /\ TranslatorIdle
    /\ AgentIdle
    /\ ClientIdle
    /\ StoreEmpty

NextStore ==
    \/ SaveSession
    \/ LoadSession
    \/ DeleteSession
    \/ ListSessions
    \/ ExportSessionIn(StoredIds)

SpecStore == InitStore /\ [][NextStore]_vars

\* The store on a file system whose reads and writes may fail.
NextStoreFaults == NextStore \/ SaveSessionFails \/ DeleteSessionFails

SpecStoreFaults == InitStore /\ [][NextStoreFaults]_vars

\* A live session: every agent operation, and the session saved and exported.
NextLive ==
    \/ StartSession
    \/ LoadDatabaseContext
    \/ GetSessionSummary
    \/ ProcessQueryWith({<<"q", "1">>}, {Raw_FencedSelect}, {[raised |-> FALSE, rows |-> <<"row">>]}, MaxQueries)
    \/ SaveCurrentSession
    \/ (current_session # None /\ ExportSessionIn({current_session[1].session_id}))

SpecLive == InitStore /\ [][NextLive]_vars

-----------------------------------------------------------------------------
(* The SQL strings the Validator and the Advisor are applied to            *)

\* The longest input is a concatenation of MaxFrags fragments.
MaxFrags == 3

\* Fragments that exercise the Validator's rules: the keywords in upper and
\* lower case, with leading blanks, a table, a literal.
ValidatorVocab ==
    {<<"S","E","L","E","C","T"," ">>,
     <<" ","s","e","l","e","c","t"," ">>,
     <<"D","R","O","P"," ">>,
     <<"d","e","l","e","t","e"," ">>,
     <<"T","R","U","N","C","A","T","E"," ">>,
     <<"A","L","T","E","R"," ">>,
     <<"C","R","E","A","T","E"," ">>,
     <<"W","I","T","H"," ">>,
     <<"S","H","O","W"," ">>,
     <<"D","E","S","C","R","I","B","E"," ">>,
     <<"F","R","O","M"," ","t">>,
     <<"C","U","R","R","E","N","T","_">>,
     <<"S","Y","S","D","A","T","E">>,
     <<"G","E","T","D","A","T","E">>,
     <<"1">>}

\* Fragments that exercise the Advisor's rules.
AdvisorVocab ==
    {<<"S","E","L","E","C","T"," ","*"," ","F","R","O","M"," ","t">>,
     <<"S","E","L","E","C","T"," ","*">>,
     <<"s","e","l","e","c","t"," ","a">>,
     <<" ","F","R","O","M"," ","t">>,
     <<" ","J","O","I","N"," ","u">>,
     <<" ","L","I","M","I","T"," ","5">>,
     <<" ","W","H","E","R","E"," ","x">>,
     <<" ","G","R","O","U","P"," ","B","Y"," ","x">>}

\* The queries the tests and the worked scenarios name literally.
Q_SelectStarCustomers ==
    <<"S","E","L","E","C","T"," ","*"," ","F","R","O","M"," ","c","u","s","t","o","m","e","r","s">>
Q_DropTable ==
    <<"D","R","O","P"," ","T","A","B","L","E"," ","c","u","s","t","o","m","e","r","s">>
Q_DeleteFrom ==
    <<"D","E","L","E","T","E"," ","F","R","O","M"," ","c","u","s","t","o","m","e","r","s">>
Q_SelectCurrentTimestamp ==
    <<"S","E","L","E","C","T"," ","C","U","R","R","E","N","T","_","T","I","M","E","S","T","A","M","P","(",")">>

\* s is a concatenation of at most max fragments of vocab.
IsFragString(s, vocab, max) ==
    \E n \in 0..max : \E f \in [1..n -> vocab] : s = concat(f)

\* The inputs: fragment strings of either vocabulary, and the literal queries.
IsSqlInput(s) ==
    \/ IsFragString(s, ValidatorVocab, MaxFrags)
    \/ IsFragString(s, AdvisorVocab, MaxFrags)
    \/ s \in {Q_SelectStarCustomers, Q_DropTable, Q_DeleteFrom, Q_SelectCurrentTimestamp, <<"W","I","T","H"," ","c","t","e"," ","A","S"," ","(","S","E","L","E","C","T"," ","i","d"," ","F","R","O","M"," ","c","u","s","t","o","m","e","r","s",")"," ","S","E","L","E","C","T"," ","*"," ","F","R","O","M"," ","c","t","e">>, <<"S","E","L","E","C","T"," ","*"," ","F","R","O","M"," ","t",";"," ","D","R","O","P"," ","T","A","B","L","E"," ","t",";">>}

-----------------------------------------------------------------------------
(* translate_query applied to one raw completion                           *)

\* translator.translate_query(...) when the completion service answers with a
\* text made of at most MaxFrags pieces: fences, the language tag, white space
\* and SQL text. request holds the raw text and response what is returned.
TranslateQuery ==
    \E n \in 0..MaxFrags :
        \E f \in [1..n -> {Fence, FenceSql, <<"s","q","l">>, <<"\n">>, <<" ">>, <<"S">>}] :
            /\ request' = Some([op |-> "translate_query", raw |-> concat(f)])
            /\ response' = Some([sql_query |-> clean_completion(concat(f))])
            /\ UNCHANGED <<translator_vars, store_vars, client_vars,
                           current_session, database_context, warehouse_vars,
                           warehouse_calls, completion_request, load_result,
                           now, queries>>

NextCompletion == TranslateQuery

SpecCompletion == InitStore /\ [][NextCompletion]_vars

-----------------------------------------------------------------------------
(* The Validator and the Advisor applied to one SQL string                 *)

InitTranslator ==
    /\ IsSqlInput(sql)
    /\ validation = None
    /\ suggestions = None
    /\ AgentIdle
    /\ ClientIdle
    /\ StoreEmpty

ValidateQuery ==
    /\ validation = None
    /\ validation' = Some(validate_query(sql))
    /\ UNCHANGED <<sql, suggestions, agent_vars, store_vars, client_vars>>

SuggestImprovements ==
    /\ suggestions = None
    /\ suggestions' = Some(suggest_improvements(sql))
    /\ UNCHANGED <<sql, validation, agent_vars, store_vars, client_vars>>

NextTranslator == ValidateQuery \/ SuggestImprovements

SpecTranslator == InitTranslator /\ [][NextTranslator]_vars

-----------------------------------------------------------------------------
(* The claims' vocabulary, stated without the model's str primitives       *)

\* kw occurs somewhere in text.
Occurs(kw, text) ==
    \E i \in 1..(Len(text) - Len(kw) + 1) :
        SubSeq(text, i, i + Len(kw) - 1) = kw

\* text, with its leading whitespace dropped, begins with kw.
BeginsTrimmed(kw, text) ==
    \E i \in 0..Len(text) :
        /\ \A j \in 1..i : text[j] \in Whitespace
        /\ i < Len(text) => text[i + 1] \notin Whitespace
        /\ i + Len(kw) <= Len(text)
        /\ SubSeq(text, i + 1, i + Len(kw)) = kw

\* The number of positions of seq that hold x.
Count(x, seq) == Cardinality({i \in 1..Len(seq) : seq[i] = x})

\* The entry-point check passes on the text of sql.
GatePasses(s) ==
    \/ BeginsTrimmed(KW_SELECT, upper(s))
    \/ Occurs(<<"W","I","T","H">>, upper(s))
    \/ Occurs(<<"S","H","O","W">>, upper(s))
    \/ Occurs(<<"D","E","S","C","R","I","B","E">>, upper(s))

-----------------------------------------------------------------------------
(* C1..C2, C9..C10: the Validator and the Advisor                          *)

\* C1: validate_query returns is_valid = false if and only if the trimmed,
\* uppercased text does not begin with SELECT and contains none of WITH, SHOW,
\* DESCRIBE; and the error list is non-empty exactly when is_valid is false.
C1_EntryGate ==
    validation # None =>
        /\ validation[1].is_valid = GatePasses(sql)
        /\ (validation[1].errors # <<>>) = (~validation[1].is_valid)

\* C1 witness: 'DROP TABLE customers' has been validated and was refused with
\* one error.
C1_Witness ==
    /\ sql = Q_DropTable
    /\ validation # None
    /\ ~validation[1].is_valid
    /\ Len(validation[1].errors) = 1

\* C2: the warning list holds exactly one danger warning for each of DROP,
\* DELETE, TRUNCATE, ALTER, CREATE that occurs in the uppercased text and none
\* for a keyword that does not occur; the danger warnings never change
\* is_valid: a text beginning with SELECT is valid whatever it contains, and
\* 'DROP TABLE customers' and 'DELETE FROM customers' are invalid and carry the
\* warning of their keyword.
C2_DangerAdvisory ==
    validation # None =>
        LET v == validation[1] IN
        /\ \A kw \in {KW_DROP, KW_DELETE, KW_TRUNCATE, KW_ALTER, KW_CREATE} :
              Count(DangerWarning(kw), v.warnings)
                  = IF Occurs(kw, upper(sql)) THEN 1 ELSE 0
        /\ \A i \in 1..Len(v.warnings) :
              v.warnings[i].kind = "dangerous" =>
                  v.warnings[i].keyword
                      \in {KW_DROP, KW_DELETE, KW_TRUNCATE, KW_ALTER, KW_CREATE}
        /\ BeginsTrimmed(KW_SELECT, upper(sql)) => v.is_valid
        /\ v.is_valid = GatePasses(sql)
        /\ sql = Q_DropTable =>
              ~v.is_valid /\ Count(DangerWarning(KW_DROP), v.warnings) = 1
        /\ sql = Q_DeleteFrom =>
              ~v.is_valid /\ Count(DangerWarning(KW_DELETE), v.warnings) = 1

\* C2 witness: a validated text that begins with SELECT, is valid and carries
\* two danger warnings.
C2_Witness ==
    /\ validation # None
    /\ BeginsTrimmed(KW_SELECT, upper(sql))
    /\ validation[1].is_valid
    /\ Cardinality({i \in 1..Len(validation[1].warnings) :
                       validation[1].warnings[i].kind = "dangerous"}) = 2

\* C9: the 'SELECT query without FROM clause' warning is present (once) exactly
\* when the uppercased text contains SELECT, does not contain FROM and contains
\* none of CURRENT_, SYSDATE, GETDATE; it is never an error and never changes
\* is_valid; 'SELECT CURRENT_TIMESTAMP()' is valid without that warning.
C9_StructuralSanity ==
    validation # None =>
        LET v == validation[1]
            u == upper(sql)
        IN
        /\ Count(NoFromWarning, v.warnings)
              = IF /\ Occurs(KW_SELECT, u)
                   /\ ~Occurs(KW_FROM, u)
                   /\ ~Occurs(<<"C","U","R","R","E","N","T","_">>, u)
                   /\ ~Occurs(<<"S","Y","S","D","A","T","E">>, u)
                   /\ ~Occurs(<<"G","E","T","D","A","T","E">>, u)
                THEN 1 ELSE 0
        /\ Count(NoFromWarning, v.errors) = 0
        /\ v.is_valid = GatePasses(sql)
        /\ sql = Q_SelectCurrentTimestamp =>
              v.is_valid /\ Count(NoFromWarning, v.warnings) = 0

\* C9 witness: a validated text that begins with SELECT, has no FROM and no
\* no-table function: it is valid and carries the missing-FROM warning.
C9_Witness ==
    /\ validation # None
    /\ validation[1].is_valid
    /\ Count(NoFromWarning, validation[1].warnings) = 1
    /\ validation[1].errors = <<>>

\* The suggestions in the Advisor's fixed order.
AdvisorOrder == <<SuggestLimit, SuggestWhere, SuggestJoin, SuggestStar>>

\* The condition the claim gives for each suggestion.
RuleHolds(suggestion, s) ==
    LET u == upper(s) IN
    CASE suggestion = SuggestLimit ->
            Occurs(KW_SELECT, u) /\ ~Occurs(KW_LIMIT, u)
      [] suggestion = SuggestWhere ->
            Occurs(KW_FROM, u) /\ ~Occurs(KW_WHERE, u) /\ ~Occurs(KW_GROUP_BY, u)
      [] suggestion = SuggestJoin -> Occurs(KW_JOIN, u)
      [] suggestion = SuggestStar -> Occurs(KW_SELECT_STAR, u)

\* Every subset of the four suggestions is what suggest_improvements returns
\* for some input.
AllSubsetsProduced ==
    \A wanted \in SUBSET {SuggestLimit, SuggestWhere, SuggestJoin, SuggestStar} :
        \E n \in 0..MaxFrags : \E f \in [1..n -> AdvisorVocab] :
            LET got == suggest_improvements(concat(f)) IN
            {got[i] : i \in 1..Len(got)} = wanted

\* C10: suggest_improvements returns, in the order LIMIT, WHERE, JOIN,
\* SELECT *, exactly the suggestions whose condition holds, and each of the 16
\* subsets of the four rules is produced by some input string.
C10_AdvisorRules ==
    /\ suggestions # None =>
          LET Fires(x) == RuleHolds(x, sql) IN
          suggestions[1] = SelectSeq(AdvisorOrder, Fires)
    /\ AllSubsetsProduced

\* C10 witness: an input for which all four rules fired at once.
C10_Witness ==
    /\ suggestions # None
    /\ suggestions[1] = AdvisorOrder

-----------------------------------------------------------------------------
(* C3..C4, C6: the agent                                                   *)

\* The last process_query call handed its SQL to execute_query.
ExecuteCalled ==
    \E i \in 1..Len(warehouse_calls) : warehouse_calls[i].op = "execute_query"

\* C3: process_query executes SQL on the warehouse only when the caller asked
\* for execution and the SQL passed the entry-point check: executed = true
\* implies that execute was requested and validation.is_valid = true; when
\* validation.is_valid = false no execute call is made for the query and the
\* response carries the validation errors.
C3_ExecutionGate ==
    response # None =>
        LET r == response[1] IN
        /\ (r.executed \/ ExecuteCalled) =>
              /\ request[1].execute
              /\ r.validation # None
              /\ r.validation[1].is_valid
              /\ GatePasses(r.sql_query[1])
        /\ (r.validation # None /\ ~r.validation[1].is_valid) =>
              /\ ~ExecuteCalled
              /\ ~r.executed
              /\ "validation" \in r.keys
              /\ r.validation[1].errors # <<>>

\* C3 witness: execution was requested for a query that failed the check; it
\* was not executed and the response carries the error.
C3_Witness ==
    /\ response # None
    /\ request[1].execute
    /\ response[1].validation # None
    /\ ~response[1].validation[1].is_valid
    /\ response[1].validation[1].errors # <<>>
    /\ ~ExecuteCalled

\* The suggestions the claim's rules give for a string.
ExpectedSuggestions(s) ==
    LET Fires(x) == RuleHolds(x, s) IN SelectSeq(AdvisorOrder, Fires)

\* Both responses carry SQL, and the same SQL.
SameSql(r1, r2) ==
    /\ r1 # None /\ r2 # None
    /\ r1[1].sql_query # None /\ r2[1].sql_query # None
    /\ r1[1].sql_query = r2[1].sql_query

\* C4: the suggestions in a response depend only on the candidate SQL: they
\* are what the Advisor's rules give for that string, valid or not, they are
\* present when is_valid = false, and two consecutive runs of the pipeline on
\* the same SQL carry identical suggestions.
C4_AdvisorIndependence ==
    /\ [](response # None /\ response[1].sql_query # None =>
            /\ "suggestions" \in response[1].keys
            /\ response[1].suggestions
                  = Some(ExpectedSuggestions(response[1].sql_query[1])))
    /\ [][SameSql(response, response') =>
            response[1].suggestions = response'[1].suggestions]_vars

\* C4 witness: a response for a query that failed validation carries a
\* non-empty suggestion list.
C4_Witness ==
    /\ response # None
    /\ response[1].validation # None
    /\ ~response[1].validation[1].is_valid
    /\ response[1].suggestions # None
    /\ response[1].suggestions[1] # <<>>

\* The first ten tables listed.
FirstTenListed ==
    {warehouse_tables[i] : i \in 1..Len(warehouse_tables)} \cap 1..10

\* C6: whatever the number of tables listed, a context built by
\* load_database_context has schema entries and sample-data entries for at
\* most 10 tables, all among the first 10 listed, and the tables beyond them
\* are omitted without an error: the call raises only at the listing itself.
C6_ContextTableCap ==
    /\ database_context # None =>
          /\ Cardinality(database_context[1].table_schemas) <= 10
          /\ Cardinality(database_context[1].sample_data) <= 10
          /\ database_context[1].table_schemas \subseteq FirstTenListed
          /\ database_context[1].sample_data \subseteq FirstTenListed
    /\ (load_result # None /\ load_result[1].raised) =>
          warehouse_calls = <<Call("list_tables", 0)>>
    /\ (load_result # None /\ ~load_result[1].raised) =>
          load_result[1].context = database_context

\* C6 witness: the warehouse lists 15 tables and the context just built holds
\* schema entries for 10 of them.
C6_Witness ==
    /\ Len(warehouse_tables) = 15
    /\ load_result # None
    /\ ~load_result[1].raised
    /\ Cardinality(load_result[1].context[1].table_schemas) = 10

-----------------------------------------------------------------------------
(* C5, C7..C8: the session store                                           *)

\* The last ConversationManager call was op.
LastCall(op) == store_result # None /\ store_result[1].op = op

C7_DeleteExactlyOne ==
    [][/\ (store_result' # None /\ store_result'[1].op = "delete_session") =>
            LET id == store_result'[1].arg[1] IN
            IF session_filename(id) \in DOMAIN files
            THEN /\ store_result'[1].value = Some(TRUE)
                 /\ DOMAIN files' = DOMAIN files \ {session_filename(id)}
                 /\ \A n \in DOMAIN files' : files'[n] = files[n]
                 /\ load_session(files', id) = None
                 /\ \A other \in StoredIds \ {id} :
                       load_session(files', other) = load_session(files, other)
            ELSE /\ store_result'[1].value = Some(FALSE)
                 /\ files' = files
       /\ (/\ LastCall("delete_session")
           /\ store_result' # None
           /\ store_result'[1].op = "load_session"
           /\ store_result'[1].arg = store_result[1].arg) =>
              store_result'[1].value = None
      ]_vars

\* C7 witness: a record was deleted while another session's record stayed.
C7_Witness ==
    /\ LastCall("delete_session")
    /\ store_result[1].value = Some(TRUE)
    /\ Cardinality(DOMAIN files) = 1

\* C8: list_sessions returns one entry per durable record, each with the
\* message count of the session saved there, ordered by creation time, newest
\* first.
C8_ListSessions ==
    LastCall("list_sessions") =>
        LET entries == store_result[1].value[1] IN
        /\ Len(entries) = Cardinality(DOMAIN files)
        /\ {entries[i].file_path : i \in 1..Len(entries)} = DOMAIN files
        /\ \A i \in 1..Len(entries) :
              /\ entries[i].session_id = saved[entries[i].file_path].session_id
              /\ entries[i].message_count
                    = Len(saved[entries[i].file_path].messages)
        /\ \A i, j \in 1..Len(entries) :
              i < j => saved[entries[i].file_path].created_at
                          >= saved[entries[j].file_path].created_at

\* C8 witness: two sessions created at different times are listed, the one
\* with a message among them.
C8_Witness ==
    /\ LastCall("list_sessions")
    /\ Len(store_result[1].value[1]) = 2
    /\ saved[store_result[1].value[1][1].file_path].created_at
          > saved[store_result[1].value[1][2].file_path].created_at
    /\ \E i \in 1..2 : store_result[1].value[1][i].message_count = 1

-----------------------------------------------------------------------------
(* C11: what the pipeline reports for SELECT * without LIMIT               *)

\* Both the Validator and the Advisor have run on a text that starts with
\* SELECT, contains 'SELECT *' and has no LIMIT.
StarWithoutLimitReported ==
    /\ validation # None
    /\ suggestions # None
    /\ BeginsTrimmed(KW_SELECT, upper(sql))
    /\ Occurs(KW_SELECT_STAR, upper(sql))
    /\ ~Occurs(KW_LIMIT, upper(sql))

\* The warning list of the validation holds the Advisor's finding of a rule.
WarningsHoldSuggestion(rule) ==
    \E i \in 1..Len(validation[1].warnings) :
        validation[1].warnings[i] = [kind |-> "suggestion", keyword |-> rule]

\* C11 as stated: for 'SELECT * FROM customers', and any text that starts with
\* SELECT, contains 'SELECT *' and has no LIMIT, is_valid = true, there are no
\* errors, and the warnings include a LIMIT suggestion and a SELECT *
\* suggestion from the Advisor.
C11_AsStated ==
    StarWithoutLimitReported =>
        /\ validation[1].is_valid
        /\ validation[1].errors = <<>>
        /\ WarningsHoldSuggestion(KW_LIMIT)
        /\ WarningsHoldSuggestion(KW_SELECT_STAR)

\* C11 amended: for such a text is_valid = true, there are no errors, and the
\* LIMIT suggestion and the SELECT * suggestion are in the Advisor's
\* suggestion list, LIMIT first; the validation's warning list holds only the
\* Validator's own warnings, and none for 'SELECT * FROM customers'.
C11_SuggestionsNotWarnings ==
    StarWithoutLimitReported =>
        /\ validation[1].is_valid
        /\ validation[1].errors = <<>>
        /\ \E i, j \in 1..Len(suggestions[1]) :
              /\ i < j
              /\ suggestions[1][i] = SuggestLimit
              /\ suggestions[1][j] = SuggestStar
        /\ \A i \in 1..Len(validation[1].warnings) :
              validation[1].warnings[i].kind \in {"dangerous", "no_from"}
        /\ sql = Q_SelectStarCustomers => validation[1].warnings = <<>>

\* C11 witness: 'SELECT * FROM customers' has been validated and advised.
C11_Witness ==
    /\ sql = Q_SelectStarCustomers
    /\ StarWithoutLimitReported
    /\ Len(suggestions[1]) = 3

-----------------------------------------------------------------------------
(* C12: the history grows by two messages per query                        *)

\* The messages of the agent's session, none when there is no session.
HistoryOf(session) == IF session = None THEN <<>> ELSE session[1].messages

\* new is old with a user message holding the question and then an assistant
\* message holding the SQL appended.
TwoAppended(old, new, question, sql_query) ==
    /\ Len(new) = Len(old) + 2
    /\ SubSeq(new, 1, Len(old)) = old
    /\ new[Len(old) + 1].role = Role_user
    /\ new[Len(old) + 1].content = question
    /\ new[Len(old) + 2].role = Role_assistant
    /\ new[Len(old) + 2].query = Some(sql_query)
    /\ new[Len(old) + 2].content = GeneratedPrefix \o sql_query

\* C12 as stated: every process_query call appends exactly two messages to the
\* session's history, the user message and then the assistant message, so n
\* calls leave 2n messages.
C12_AsStated ==
    [][queries' = queries + 1 =>
          /\ Len(HistoryOf(current_session')) = Len(HistoryOf(current_session)) + 2
          /\ SubSeq(HistoryOf(current_session'), 1, Len(HistoryOf(current_session)))
                = HistoryOf(current_session)
      ]_vars

\* C12 amended: a process_query call that obtains SQL from the translator
\* appends exactly two messages, first the user message with the question and
\* then the assistant message with the generated SQL; a call whose context
\* load or translation raises appends nothing.
C12_TwoMessagesPerTranslatedQuery ==
    [][queries' = queries + 1 =>
          IF response'[1].sql_query # None
          THEN TwoAppended(HistoryOf(current_session),
                           HistoryOf(current_session'),
                           request'[1].natural_language,
                           response'[1].sql_query[1])
          ELSE HistoryOf(current_session') = HistoryOf(current_session)
      ]_vars

\* C12 witness: two queries were translated in one session, which holds four
\* messages.
C12_Witness ==
    /\ queries = 2
    /\ response # None
    /\ response[1].sql_query # None
    /\ Len(HistoryOf(current_session)) = 4

-----------------------------------------------------------------------------
(* C13: the messages sent to the completion service                        *)

\* C13: for every process_query call, the messages sent to the completion
\* service are the system prompt, then the last 5 turns (all when fewer) of
\* the session's history as it stands at the time of the call, each as a
\* role-tagged message in order, then the question as the final user message.
C13_PromptCarriesRecentHistory ==
    [][(queries' = queries + 1 /\ completion_request' # None) =>
          LET sent  == completion_request'[1]
              turns == LastN(HistoryOf(current_session), 5)
          IN
          /\ Len(sent) = Len(turns) + 2
          /\ sent[1].role = <<"s","y","s","t","e","m">>
          /\ \A i \in 1..Len(turns) :
                sent[i + 1] = [role |-> turns[i].role,
                               content |-> turns[i].content]
          /\ sent[Len(sent)] = [role |-> Role_user,
                                content |-> request'[1].natural_language]
      ]_vars

-----------------------------------------------------------------------------
(* C14: a failed translation                                               *)

\* The completion call of the last process_query raised.
TranslationFailed ==
    /\ response # None
    /\ completion_request # None
    /\ response[1].error = Some("completion failed")

\* C14: when the completion call raises, process_query returns a response
\* whose error is set, whose executed flag is false and which holds no
\* sql_query; nothing was validated or executed on the warehouse.
C14_TranslationFailureTerminal ==
    TranslationFailed =>
        /\ response[1].keys = {"natural_language", "error", "executed"}
        /\ response[1].natural_language = request[1].natural_language
        /\ response[1].error # None
        /\ ~response[1].executed
        /\ response[1].sql_query = None
        /\ response[1].validation = None
        /\ response[1].results = None
        /\ ~ExecuteCalled

\* C14 witness: execution was requested and the completion call raised.
C14_Witness ==
    /\ TranslationFailed
    /\ request[1].execute
    /\ queries = 2

-----------------------------------------------------------------------------
(* C15: a failed execution                                                 *)

\* The warehouse rejected the SQL of the last process_query.
ExecutionFailed ==
    /\ response # None
    /\ ExecuteCalled
    /\ response[1].error = Some("execution failed")

\* C15: when the warehouse rejects a valid generated query, process_query
\* returns a response with the error set, executed = false and results = None
\* that carries sql_query, validation and suggestions; the user and assistant
\* messages of the query are the last two of the history; and a process_query
\* that follows works on the same session and keeps its history.
C15_ExecutionFailureContained ==
    /\ [](ExecutionFailed =>
            LET r == response[1]
                h == HistoryOf(current_session)
            IN
            /\ {"sql_query", "validation", "suggestions", "error", "executed",
                "results"} \subseteq r.keys
            /\ r.error # None
            /\ ~r.executed
            /\ r.results = None
            /\ r.sql_query # None
            /\ r.validation = Some(validate_query(r.sql_query[1]))
            /\ r.validation[1].is_valid
            /\ r.suggestions = Some(ExpectedSuggestions(r.sql_query[1]))
            /\ Len(h) >= 2
            /\ TwoAppended(SubSeq(h, 1, Len(h) - 2), h,
                           request[1].natural_language, r.sql_query[1]))
    /\ [][(ExecutionFailed /\ queries' = queries + 1) =>
            /\ response' # None
            /\ current_session'[1].session_id = current_session[1].session_id
            /\ SubSeq(HistoryOf(current_session'), 1,
                      Len(HistoryOf(current_session)))
                  = HistoryOf(current_session)
            /\ response'[1].sql_query # None =>
                  Len(HistoryOf(current_session'))
                      = Len(HistoryOf(current_session)) + 2
        ]_vars

\* C15 witness: the second query of a session was rejected by the warehouse
\* and the history holds both queries.
C15_Witness ==
    /\ ExecutionFailed
    /\ queries = 2
    /\ Len(HistoryOf(current_session)) = 4

-----------------------------------------------------------------------------
(* C16: a table whose metadata or sample rows cannot be fetched            *)

\* C16: when get_table_info or get_sample_data fails for a table,
\* load_database_context still returns a context; the table has an entry in
\* neither the schema map nor the sample-data map, so both maps hold the same
\* tables, and every other table among the first 10 listed is included.
C16_FailedTableSkipped ==
    (load_result # None /\ ~load_result[1].raised) =>
        LET context == load_result[1].context[1]
            loadable == FirstTenListed
                            \ (warehouse_bad_info \cup warehouse_bad_sample)
        IN
        /\ context.table_schemas = context.sample_data
        /\ context.table_schemas = loadable
        /\ context.sample_data = loadable

-----------------------------------------------------------------------------
(* C17: errors of the file system                                          *)

\* C17: an error during save_session or load_session is propagated to the
\* caller as an exception, an error during list_sessions yields a list without
\* raising, and an error during delete_session yields false without raising.
C17_LoudSaveLoadSoftListDelete ==
    store_fault # None =>
        CASE store_result[1].op \in {"save_session", "load_session"} ->
                store_fault[1].raised
          [] store_result[1].op = "list_sessions" ->
                ~store_fault[1].raised /\ store_result[1].value # None
          [] store_result[1].op = "delete_session" ->
                ~store_fault[1].raised /\ store_result[1].value = Some(FALSE)
          [] OTHER -> TRUE

-----------------------------------------------------------------------------
(* C18: the session id start_session returns                               *)

\* The last agent call was start_session.
SessionStarted(r) == r # None /\ r[1].op = "start_session"

\* The call was made without an explicit id (None, or the empty string).
WithoutExplicitId(r) == r[1].session_id = None \/ r[1].session_id = Some(<<>>)

\* C18: start_session returns the session id it installs on the agent, the
\* caller's id when one is given and otherwise a generated id beginning with
\* 'session_'; and two start_session calls of one run made without an explicit
\* id return different session ids.
C18_SessionIdReturned ==
    [][SessionStarted(request') =>
          /\ current_session' # None
          /\ request'[1].returned = current_session'[1].session_id
          /\ IF WithoutExplicitId(request')
             THEN BeginsTrimmed(SessionPrefix, request'[1].returned)
             ELSE request'[1].returned = request'[1].session_id[1]
          /\ (SessionStarted(request) /\ WithoutExplicitId(request)
                                      /\ WithoutExplicitId(request')) =>
                request'[1].returned # request[1].returned
      ]_vars

-----------------------------------------------------------------------------
(* C20: get_session_summary                                                *)

\* The last agent call was get_session_summary; response holds what it returned.
Summarised == request # None /\ request[1].op = "get_session_summary"

\* The messages of the current session that satisfy a condition on their query.
MessagesWhere(Cond(_)) ==
    {i \in 1..Len(current_session[1].messages) :
        Cond(current_session[1].messages[i].query)}

\* The message has an SQL string attached, whatever its text.
CarriesSql(query) == query # None

\* The message has an SQL string attached and the string is not empty.
CarriesNonEmptySql(query) == query # None /\ query[1] # <<>>

\* The summary reports an error exactly when there is no session, and
\* otherwise the session's id, its number of messages, and as queries_executed
\* the number of messages selected by Cond.
SummaryCounts(Cond(_)) ==
    Summarised =>
        /\ ("error" \in response[1].keys) <=> (current_session = None)
        /\ current_session # None =>
              /\ response[1].session_id = Some(current_session[1].session_id)
              /\ response[1].message_count = Some(Len(current_session[1].messages))
              /\ response[1].queries_executed = Some(Cardinality(MessagesWhere(Cond)))

\* C20 as stated: get_session_summary returns a record with an 'error' key if
\* and only if the agent has no current session; otherwise it returns the
\* current session's id, with message_count equal to the number of messages in
\* the history and queries_executed equal to the number of messages that carry
\* an associated SQL string.
C20_AsStated == SummaryCounts(CarriesSql)

\* C20, amended: as above, with queries_executed equal to the number of
\* messages that carry a non-empty SQL string; a message whose SQL is the empty
\* string, as after a completion with nothing inside its fence, is not counted.
C20_SummaryCountsNonEmptySql == SummaryCounts(CarriesNonEmptySql)

\* A session of two translated queries, one of them with empty SQL, is
\* summarised: four messages, one query counted.
C20_Witness ==
    /\ Summarised
    /\ current_session # None
    /\ response[1].message_count = Some(4)
    /\ response[1].queries_executed = Some(1)
    /\ MessagesWhere(CarriesSql) # MessagesWhere(CarriesNonEmptySql)

-----------------------------------------------------------------------------
(* C19: precedence of the authentication methods                           *)

\* The methods in order of precedence, and whether the settings configure
\* them.  A private key counts as configured when its file loads; an
\* authenticator counts as an SSO/OAuth method when it is externalbrowser or
\* oauth in any letter case; every settings has the last method, the configured
\* or prompted password.
MethodInForce(cfg) ==
    IF cfg.private_key_path = "loadable" THEN "private_key"
    ELSE IF cfg.authenticator # None
            /\ lower(cfg.authenticator[1]) \in {<<"e","x","t","e","r","n","a","l","b","r","o","w","s","e","r">>, <<"o","a","u","t","h">>}
         THEN "authenticator"
         ELSE IF cfg.password_from_env # None THEN "password_from_env"
              ELSE "password"

\* The keys under which the parameters carry a credential.
CredentialKeys(params) ==
    DOMAIN params \cap {"private_key", "authenticator", "token", "password"}

\* C19: authentication methods are mutually exclusive with precedence private
\* key > SSO/OAuth authenticator > secure-environment password > configured or
\* prompted password: for every combination of configured options, the
\* connection parameters built by the client carry the credentials of exactly
\* the highest-precedence configured method and of no lower-precedence method.
C19_OneMethodInForce ==
    connection_params # None =>
        LET cfg == settings[1]
            params == connection_params[1]
            method == MethodInForce(cfg)
        IN  /\ method = "private_key" =>
                CredentialKeys(params) = {"private_key"}
            /\ method = "authenticator" =>
                /\ "authenticator" \in CredentialKeys(params)
                /\ CredentialKeys(params) \subseteq {"authenticator", "token"}
            /\ method = "password_from_env" =>
                /\ "password" \in CredentialKeys(params)
                /\ params["password"] = cfg.password_from_env
                /\ CredentialKeys(params) \subseteq {"authenticator", "password"}
            /\ method = "password" =>
                /\ "password" \in CredentialKeys(params)
                /\ params["password"] # Some("env-password")
                /\ CredentialKeys(params) \subseteq {"authenticator", "password"}

-----------------------------------------------------------------------------
(* C21: the cache flag of load_database_context                            *)

\* C21: a QueryContext is built fresh from the warehouse for each translation,
\* the last snapshot being reused only when the caller asks for it through the
\* cache flag: every process_query that reaches the completion service has
\* listed the tables of the warehouse; load_database_context(use_cache = false)
\* always queries the warehouse and, when it returns, has stored the context it
\* returns; load_database_context(use_cache = true) with a stored snapshot
\* returns that snapshot and makes no warehouse call.
C21_FreshUnlessCacheRequested ==
    [][/\ (queries' = queries + 1 /\ completion_request' # None) =>
              /\ warehouse_calls' # <<>>
              /\ Head(warehouse_calls') = Call("list_tables", 0)
       /\ (load_result' # None /\ ~load_result'[1].use_cache) =>
              /\ warehouse_calls' # <<>>
              /\ Head(warehouse_calls') = Call("list_tables", 0)
              /\ ~load_result'[1].raised =>
                    /\ load_result'[1].context # None
                    /\ database_context' = load_result'[1].context
       /\ (load_result' # None /\ load_result'[1].use_cache
                               /\ database_context # None) =>
              /\ ~load_result'[1].raised
              /\ load_result'[1].context = database_context
              /\ database_context' = database_context
              /\ warehouse_calls' = <<>>
      ]_vars

-----------------------------------------------------------------------------
(* C22: when load_database_context fails                                   *)

\* The last process_query got no context: list_tables raised, and neither the
\* completion service nor any other warehouse call was reached.
ContextLoadFailed(req, resp, sent, calls) ==
    /\ req # None /\ req[1].op = "process_query"
    /\ sent = None
    /\ calls = <<Call("list_tables", 0)>>
    /\ resp # None

\* C22: load_database_context fails if and only if the table-listing call
\* itself fails; in every other case, per-table failures included, it returns
\* a context. When it fails the exception reaches the caller, the stored
\* snapshot is left as it was, and process_query reports the failure in the
\* error field of its response with executed = false.
C22_FailsOnlyWhenListingFails ==
    [][/\ load_result' # None =>
              /\ load_result'[1].raised <=> load_result'[1].list_failed
              /\ load_result'[1].raised => /\ load_result'[1].context = None
                                           /\ database_context' = database_context
              /\ ~load_result'[1].raised => /\ load_result'[1].context # None
                                            /\ database_context' # None
       /\ ContextLoadFailed(request', response', completion_request',
                            warehouse_calls') =>
              /\ response'[1].error # None
              /\ ~response'[1].executed
              /\ database_context' = database_context
       /\ (queries' = queries + 1 /\ response'[1].error = None) =>
              database_context' # None
      ]_vars

\* A reload fails on the listing and leaves in place the snapshot of an earlier
\* load, which returned a context although a table of the warehouse had failed
\* to load.
C22_Witness ==
    /\ load_result # None
    /\ ~load_result[1].use_cache
    /\ load_result[1].raised
    /\ warehouse_bad_info # {}
    /\ database_context # None
    /\ database_context[1].table_schemas # {1, 2}

-----------------------------------------------------------------------------
(* C23: cursors                                                            *)

\* The last call on the client ran a query through get_cursor.
QueryCall(call) ==
    call # None /\ call[1].op \in {"execute_query", "execute_query_to_dataframe"}

\* C23: every warehouse call takes one cursor (none when it cannot get a
\* connection or a cursor, and then it raises) and has closed it by the time it
\* returns or raises; no cursor remains open between calls.
C23_CursorsScoped ==
    /\ driver.cursors = 0
    /\ QueryCall(client_call) =>
          /\ client_call[1].acquired \in {0, 1}
          /\ client_call[1].acquired = 0 => client_call[1].raised
          /\ ~client_call[1].raised => client_call[1].acquired = 1

\* A query that took a cursor and raised.
C23_Witness ==
    /\ QueryCall(client_call)
    /\ client_call[1].raised
    /\ client_call[1].acquired = 1
    /\ driver.cursors = 0

-----------------------------------------------------------------------------
(* C24: one connection                                                     *)

\* C24: the client holds a single connection handle, established lazily: after
\* any sequence of connect, execute_query, test_connection and disconnect
\* calls at most one connection opened by the client is still open, every open
\* connection is the one the client references, and execute_query opens a
\* connection only when the client holds none.
C24_SingleConnection ==
    [][/\ Cardinality(driver'.open) <= 1
       /\ \A c \in driver'.open : connection' = Some(c)
       /\ (QueryCall(client_call') /\ driver'.opened # driver.opened) =>
              connection = None
      ]_vars

-----------------------------------------------------------------------------
(* C30: test_connection                                                    *)

\* The last call on the client was test_connection.
Tested(call) == call # None /\ call[1].op = "test_connection"

\* C30: test_connection reports its outcome as a boolean and always leaves the
\* client disconnected: whether connect or the probe query succeeds or fails,
\* and whether or not a connection was held before, on return the client holds
\* no connection, and a failure yields false, not an exception; true is
\* returned only when a connection was opened and the probe ran on a cursor.
\* The next warehouse call that succeeds has opened a connection again.
C30_TestLeavesDisconnected ==
    [][/\ Tested(client_call') =>
              /\ connection' = None
              /\ ~client_call'[1].raised
              /\ client_call'[1].result \in BOOLEAN
              /\ client_call'[1].result =>
                    /\ driver'.opened = driver.opened + 1
                    /\ client_call'[1].acquired = 1
       /\ (Tested(client_call) /\ QueryCall(client_call')
                               /\ ~client_call'[1].raised) =>
              /\ driver'.opened = driver.opened + 1
              /\ connection' = Some(driver'.opened)
      ]_vars

\* test_connection was called with a connection held and returned false.
C30_Witness ==
    /\ Tested(client_call)
    /\ client_call[1].held # None
    /\ ~client_call[1].result
    /\ connection = None

-----------------------------------------------------------------------------
(* C25: the history of a live session is append-only                       *)

\* The step is a start_session call.
IsStartSession ==
    /\ request' # None
    /\ request'[1].op = "start_session"
    /\ UNCHANGED store_vars

\* C25: across every agent operation other than start_session (process_query
\* whether it succeeds or fails, load_database_context, get_session_summary,
\* save_session, export_session) the history before the operation is a prefix
\* of the history after it: no message is modified, reordered or removed.
C25_HistoryAppendOnly ==
    [][~IsStartSession =>
          LET before == HistoryOf(current_session)
              after  == HistoryOf(current_session')
          IN  /\ Len(before) <= Len(after)
              /\ SubSeq(after, 1, Len(before)) = before
      ]_vars

\* A session with four messages has been saved and exported.
C25_Witness ==
    /\ current_session # None
    /\ Len(current_session[1].messages) = 4
    /\ store_result # None
    /\ store_result[1].op = "export_session"
    /\ store_result[1].value # None

-----------------------------------------------------------------------------
(* C26: code fences around the completion                                  *)

\* The text between the fences of a trimmed response: a leading fence goes with
\* its language tag when it has one, and a trailing fence goes.
InnerText(s0) ==
    LET s1 == IF startswith(s0, FenceSql) THEN SubSeq(s0, 7, Len(s0))
              ELSE IF startswith(s0, Fence) THEN SubSeq(s0, 4, Len(s0))
              ELSE s0
        s2 == IF endswith(s1, Fence) THEN SubSeq(s1, 1, Len(s1) - 3) ELSE s1
    IN  strip(s2)

\* C26: translate_query strips a leading and a trailing code-fence marker from
\* the raw completion when present: for every raw response that begins and/or
\* ends with a code fence, with or without a language tag, the SQL returned is
\* the trimmed inner text and neither begins nor ends with a fence marker; a
\* response without fences is returned trimmed and otherwise unchanged.
C26_FencesStripped ==
    (request # None /\ request[1].op = "translate_query") =>
        LET s0  == strip(request[1].raw)
            out == response[1].sql_query
        IN  IF startswith(s0, Fence) \/ endswith(s0, Fence)
            THEN /\ out = InnerText(s0)
                 /\ ~startswith(out, Fence)
                 /\ ~endswith(out, Fence)
            ELSE out = s0

-----------------------------------------------------------------------------
(* C27: the shape of the history                                           *)

\* The history has even length and alternates user, assistant, ... from a user
\* message on.
Alternates(h) ==
    /\ Len(h) % 2 = 0
    /\ \A i \in 1..Len(h) :
          h[i].role = IF i % 2 = 1 THEN Role_user ELSE Role_assistant

\* The assistant messages of the history whose SQL is the empty string.
EmptySqlMessages(h) ==
    {i \in 1..Len(h) : h[i].role = Role_assistant /\ h[i].query = Some(<<>>)}

\* The history alternates in the state reached; a process_query that appended
\* has appended the question and then an assistant message whose SQL is the
\* sql_query of the response it returned; and a summary reports a
\* message_count of twice queries_executed plus twice the number of assistant
\* messages left out of queries_executed for the reason given.
HistoryShape(LeftOut(_)) ==
    LET h  == HistoryOf(current_session)
        h2 == HistoryOf(current_session')
    IN  /\ Alternates(h2)
        /\ (queries' = queries + 1 /\ Len(h2) > Len(h)) =>
              /\ h2[Len(h2) - 1].content = request'[1].natural_language
              /\ h2[Len(h2)].query = response'[1].sql_query
        /\ (request' # None /\ request'[1].op = "get_session_summary"
                            /\ current_session' # None) =>
              response'[1].message_count[1] =
                  2 * response'[1].queries_executed[1]
                  + 2 * Cardinality(LeftOut(h2))

\* No assistant message is left out of the count.
NoMessages(h) == {}

\* C27 as stated: in a session whose history is changed only by process_query
\* the history has even length and alternates user, assistant, ..., starting
\* with a user message; each assistant message's SQL equals the sql_query of
\* the response returned for the user message just before it; and
\* get_session_summary reports message_count = 2 x queries_executed.
C27_AsStated == [][HistoryShape(NoMessages)]_vars

\* C27, amended: as above, with message_count = 2 x queries_executed whenever
\* every assistant message's SQL is non-empty; an assistant message whose SQL
\* is the empty string adds two to message_count and nothing to
\* queries_executed.
C27_AlternatingHistory == [][HistoryShape(EmptySqlMessages)]_vars

\* The summary of a session of one translated query whose SQL is empty: two
\* messages, no query counted.
C27_Witness ==
    /\ Summarised
    /\ current_session # None
    /\ Alternates(current_session[1].messages)
    /\ EmptySqlMessages(current_session[1].messages) = {2}
    /\ response[1].message_count = Some(2)
    /\ response[1].queries_executed = Some(0)

-----------------------------------------------------------------------------
(* C28: the prompt of a new session                                        *)

\* C28: after start_session has begun a new session, no conversation turn of
\* an earlier session is sent to the completion service for a query of the new
\* session, whatever process_query and load_database_context calls came
\* before: every turn sent between the system prompt and the question is a
\* turn of the history of the session the query belongs to.
C28_PromptHoldsOwnSessionOnly ==
    [][(queries' = queries + 1 /\ completion_request' # None) =>
          LET sent == completion_request'[1]
              own  == HistoryOf(current_session)
          IN  \A i \in 2..(Len(sent) - 1) :
                 \E j \in 1..Len(own) :
                    sent[i] = [role |-> own[j].role, content |-> own[j].content]
      ]_vars

-----------------------------------------------------------------------------
(* C29: one record per session id                                          *)

\* The ids of the sessions saved and not deleted since.
SavedIds == {saved[n].session_id : n \in DOMAIN saved}

\* C29: the store holds at most one record per session id, a save of an id
\* that has a record replacing it: after any sequence of save_session,
\* export_session and delete_session calls there is one file per id saved and
\* not deleted, list_sessions has one entry per such id, and load_session
\* returns the content of the most recent save of the id.
C29_OneRecordPerId ==
    /\ Cardinality(DOMAIN files) = Cardinality(SavedIds)
    /\ \A n \in DOMAIN saved :
          load_session(files, saved[n].session_id) = Some(saved[n])
    /\ LastCall("list_sessions") =>
          LET entries == store_result[1].value[1] IN
          /\ Len(entries) = Cardinality(SavedIds)
          /\ {entries[i].session_id : i \in 1..Len(entries)} = SavedIds

\* Two ids have a record, and one of them was just exported, which saved it
\* once more.
C29_Witness ==
    /\ LastCall("export_session")
    /\ store_result[1].value # None
    /\ Cardinality(SavedIds) = 2
    /\ \E n \in DOMAIN saved : Len(saved[n].messages) = 1

====
